---------------------------- MODULE Spec2Model ----------------------------
(***************************************************************************)
(* State-machine model of the MediaGalleryPage component                   *)
(* (javascripts/discourse/components/media-gallery-page.js).               *)
(*                                                                         *)
(* The component is single threaded; every handler runs to its next await  *)
(* atomically.  An action of this module is one such synchronous segment:  *)
(* the start of a handler up to the request it issues, or the continuation *)
(* that runs when the response of a request arrives.  Requests in flight   *)
(* are kept in sequences (in issue order); the closure a continuation      *)
(* captured is stored in the request record.                               *)
(***************************************************************************)
EXTENDS Integers, Sequences, FiniteSets, TLC

(***************************************************************************)
(* Bounds of the model                                                     *)
(***************************************************************************)
MaxLikeReqs == 2      \* like/unlike requests in flight at once
MaxListReqs == 1      \* explicit refreshes in flight at once
MaxPollReqs == 1      \* silent (polling) refreshes in flight at once
MaxToggles  == 3      \* toggleLike calls made
MaxOthers   == 1      \* likes an item has from other viewers
MaxTagsSelected == 2  \* tags selected in the filter at once
MaxSessions == 2      \* preview sessions opened
MaxTokens   == 2      \* playback tokens the backend grants
MaxPlayReqs == 1      \* GET /media/:id/play requests in flight at once
MaxHbReqs   == 1      \* heartbeat requests in flight at once
MaxRevokeReqs == 1    \* revoke requests in flight at once
MaxConts    == 1      \* suspended togglePreviewPlayback / onPlayerError calls
MaxEvents   == 2      \* media events queued for dispatch
MaxPlayerErrors == 1  \* error events the player raises
MaxRetryErrors == 4   \* error events the player raises where retries are counted
MaxThumbErrors == 5   \* consecutive thumbnail failures counted per id
MaxDeleteReqs == 1    \* DELETE requests in flight at once
MaxRetryReqs == 1     \* POST /media/:id/retry requests in flight at once
PerPage == 2
MaxUploadReqs == 1          \* items on a page of the listing
MaxThumbTimers == 2   \* thumbnail retry timers pending at once

(***************************************************************************)
(* Values                                                                  *)
(***************************************************************************)
THUMB_RETRY_LIMIT == 3
THUMB_RETRY_BASE_DELAY_MS == 500
POLL_DELAY_MS == 4000

Null == [null |-> TRUE]            \* JavaScript null / undefined
NoMsg == "null"                    \* errorMessage / noticeMessage unset

Ids == {"v1", "a1", "i1"}

\* The server's catalogue: the fields of an item the client never changes.
Catalogue ==
  [ v1 |-> [media_type |-> "video", status |-> "ready",      tags |-> <<"demo">>,
            gender |-> "f", title |-> <<"C", "a", "t">>, description |-> <<>>],
    a1 |-> [media_type |-> "audio", status |-> "ready",      tags |-> <<"Demo", "x">>,
            gender |-> "m", title |-> <<"d", "o", "g">>,
            description |-> <<"a", " ", "c", "a", "t">>],
    i1 |-> [media_type |-> "img",   status |-> "processing", tags |-> <<>>,
            gender |-> "", title |-> <<>>, description |-> <<>>] ]

\* Texts are sequences of characters.
\* What the user may type into the search box.
QueryTexts == { <<" ">>, <<"A", "T", " ">>, <<"o", "g">> }
\* The values the subject and status selects offer.
GenderValues == {"", "f", "m"}
StatusValues == {"", "ready", "processing"}
MediaTypeValues == {"", "video", "image"}

\* The pages (sequences of ids) the listing endpoints may answer with.
ServerPages == { <<"v1", "a1", "i1">>, <<"v1", "a1">>, <<"i1">>, <<>> }

\* The failure statuses the backend answers with.
FailStatuses == {403, 500, 502}

\* The tags the filter's multi-select offers.
FilterTags == {"demo", "Demo", "x", " X "}

\* The items whose thumbnail requests may fail.
FailingThumbs == {"v1"}

\* The security policies a playback grant may declare.
PolicyOn  == [heartbeat_enabled |-> TRUE,  revoke_enabled |-> TRUE]
PolicyOff == [heartbeat_enabled |-> FALSE, revoke_enabled |-> FALSE]

Max(a, b) == IF a >= b THEN a ELSE b

RemoveAt(s, k) == [j \in 1..(Len(s) - 1) |-> IF j < k THEN s[j] ELSE s[j + 1]]

\* {...r, ...u}: object spread of an update over an item
Spread(r, u) == [f \in DOMAIN r |-> IF f \in DOMAIN u THEN u[f] ELSE r[f]]

VARIABLES
  \* tracked list and filter state
  activeTab, loading, errorMessage, noticeMessage, items, page, total,
  mediaType, tagsSelected, gender, status, q,
  \* untracked list state: _pollTimer (the id setTimeout returned, 0 for
  \* null), _tagsBrokenByEndpoint
  pollTimer, tagsBroken,
  \* the browser's pending timeouts that schedulePollingIfNeeded created
  pollsPending,
  \* thumbnails: _thumbRetryById, _thumbFailures, and per id the <img>
  \* element the list renders ("absent", "loading", "blank", "loaded") and
  \* the pending retry timers
  thumbRetryById, thumbFailures, imgState, thumbTimers,
  \* preview modal (tracked)
  previewOpen, previewItem, previewStreamUrl, previewLoading,
  previewStreamLoading, previewRetryCount, previewIsPlaying, previewFullscreen,
  \* preview modal (untracked): _previewMediaEl is set, _previewStreamToken,
  \* _previewSecurity, _previewHeartbeatTimer is set, _previewHls is set,
  \* _previewSourceAttached, _previewIsHls
  mediaEl, streamToken, security, hbTimer, hls, sourceAttached, isHls,
  \* the media element of the open preview: the session it was rendered for,
  \* its paused flag, whether it has ended playback, the token of its source
  \* (0: none), the media events queued for it, and how the browser plays
  \* adaptive streams ("native", "hlsjs", or "hlsjs-unloaded" while the
  \* library script has not been loaded yet)
  sess, elPaused, elAtEnd, elSrc, elEvents, hlsMode,
  \* whether the browser, when an element is given a new source, discards
  \* the events still queued for it (the load algorithm of the HTML standard
  \* does; the component does not depend on one browser)
  elDropsOnLoad,
  \* error events the player will still raise on a loaded stream
  playerErrorsLeft,
  \* suspended togglePreviewPlayback calls (awaiting the revoke race or the
  \* adaptive-streaming script)
  conts,
  \* requests in flight, in issue order
  likeReqs, listReqs, playReqs, hbReqs, revokeReqs,
  \* the backend: likes, tokens granted so far, and how it is configured to
  \* serve playback (its security policy, and whether videos are adaptive
  \* streams)
  srvLiked, srvOthers, tokenSeq, srvPlayback,
  \* the delete dialog, the DELETE and retry requests in flight, and the
  \* backend's uploads in listing order with the status of each
  deleteOpen, deleteItem, deleteBusy, deleteReqs, retryReqs, srvItems, srvStatus,
  \* the upload draft (uploadTitle is a character sequence), the uploads in
  \* flight, and the site setting media_gallery_upload_terms_url
  uploadFile, uploadTitle, uploadGender, uploadAuthorized, uploadBusy,
  uploadReqs, uploadTermsUrl,
  \* _destroyed: willDestroy has run
  destroyed,
  \* history (not program state)
  likeHist,      \* per id: like state when the list was loaded, toggles since
  thumbHist,     \* per id: failures in a row, delays scheduled, retries made
  playPressed,   \* play was triggered in the current preview session
  endedToks,     \* the tokens held when onPreviewEnded ran
  errFetches,    \* GET /play requests onPlayerError issued in this session
  sessOfToken    \* the preview session whose request obtained streamToken

filterVars  == <<mediaType, tagsSelected, gender, status, q>>
listVars    == <<activeTab, loading, page, total, pollTimer, pollsPending,
                 tagsBroken>>
msgVars     == <<errorMessage, noticeMessage>>
thumbVars   == <<thumbRetryById, thumbFailures, imgState, thumbTimers, thumbHist>>
tokenVars   == <<streamToken, security, hbTimer, sessOfToken>>
elVars      == <<mediaEl, sess, elPaused, elAtEnd, elSrc, elEvents, hlsMode,
                 elDropsOnLoad, playerErrorsLeft>>
playerVars  == <<previewStreamUrl, previewLoading, previewStreamLoading,
                 previewRetryCount, previewIsPlaying, previewFullscreen,
                 hls, sourceAttached, isHls, conts, playPressed,
                 endedToks, errFetches>>
previewReqs == <<playReqs, hbReqs, revokeReqs, tokenSeq>>
serverVars  == <<srvLiked, srvOthers, srvPlayback>>
deleteVars  == <<deleteOpen, deleteItem, deleteBusy, deleteReqs, retryReqs,
                 srvItems, srvStatus>>
draftVars   == <<uploadFile, uploadTitle, uploadGender, uploadAuthorized>>
uploadVars  == <<draftVars, uploadBusy, uploadReqs, uploadTermsUrl>>

vars == <<activeTab, loading, errorMessage, noticeMessage, items, page, total,
          mediaType, tagsSelected, gender, status, q, pollTimer, pollsPending, tagsBroken,
          thumbRetryById, thumbFailures, imgState, thumbTimers,
          previewOpen, previewItem, previewStreamUrl, previewLoading,
          previewStreamLoading, previewRetryCount, previewIsPlaying,
          previewFullscreen, mediaEl, streamToken, security, hbTimer, hls,
          sourceAttached, isHls, sess, elPaused, elAtEnd, elSrc, elEvents, hlsMode,
          elDropsOnLoad, playerErrorsLeft,
          conts, likeReqs, listReqs, playReqs, hbReqs, revokeReqs,
          srvLiked, srvOthers, tokenSeq, srvPlayback,
          deleteOpen, deleteItem, deleteBusy, deleteReqs, retryReqs, srvItems,
          srvStatus,
          uploadFile, uploadTitle, uploadGender, uploadAuthorized, uploadBusy,
          uploadReqs, uploadTermsUrl, destroyed,
          likeHist, thumbHist, playPressed, endedToks, errFetches,
          sessOfToken>>

\* everything the like/unlike code leaves alone
likeFrame == <<filterVars, listVars, thumbVars, tokenVars, elVars, playerVars,
               previewReqs>>

(***************************************************************************)
(* The backend's view of an item, as a listing response carries it         *)
(***************************************************************************)
ServerCount(id) == srvOthers[id] + (IF id \in srvLiked THEN 1 ELSE 0)

IndexOf(its, id) ==
  IF \E k \in 1..Len(its) : its[k].public_id = id
    THEN CHOOSE k \in 1..Len(its) :
           /\ its[k].public_id = id
           /\ \A j \in 1..(k - 1) : its[j].public_id # id
    ELSE 0

(***************************************************************************)
(* Client-side filtering helpers                                           *)
(***************************************************************************)
\* String.prototype.toLowerCase / trim on the strings of the model
Lower(t) == CASE t = "Demo" -> "demo" [] t = " X " -> " x " [] t = "X" -> "x" [] OTHER -> t
Trim(t)  == CASE t = " X " -> "X" [] t = " x " -> "x" [] t = " " -> "" [] OTHER -> t

RECURSIVE uniqFrom(_, _, _)
uniqFrom(arr, k, out) ==
  IF k > Len(arr) THEN out
  ELSE LET s == Trim(arr[k]) IN
       IF s = "" \/ \E j \in 1..Len(out) : Lower(out[j]) = Lower(s)
         THEN uniqFrom(arr, k + 1, out)
         ELSE uniqFrom(arr, k + 1, Append(out, s))

uniqStrings(arr) == uniqFrom(arr, 1, <<>>)

NonEmptyStr(t) == t # ""

\* _normalizeTags: trim, lower-case, drop the empty ones
NormalizeTags(tags) ==
  SelectSeq([k \in 1..Len(tags) |-> Lower(Trim(tags[k]))], NonEmptyStr)

\* a filter that keeps an item as soon as it carries one of the tags
ItemHasSomeTag(item, selectedTagsLower) ==
  IF Len(selectedTagsLower) = 0 THEN TRUE
  ELSE LET itemTags == NormalizeTags(item.tags) IN
       \E k \in 1..Len(selectedTagsLower) :
         \E j \in 1..Len(itemTags) : itemTags[j] = selectedTagsLower[k]

\* _itemHasAllTags
ItemHasAllTags(item, selectedTagsLower) ==
  IF Len(selectedTagsLower) = 0 THEN TRUE
  ELSE LET itemTags == NormalizeTags(item.tags) IN
       IF Len(itemTags) = 0 THEN FALSE
       ELSE \A k \in 1..Len(selectedTagsLower) :
              \E j \in 1..Len(itemTags) : itemTags[j] = selectedTagsLower[k]

\* String.prototype.toLowerCase / trim / includes on texts
LowerCh(c) ==
  CASE c = "A" -> "a" [] c = "C" -> "c" [] c = "T" -> "t" [] OTHER -> c

LowerText(t) == [k \in 1..Len(t) |-> LowerCh(t[k])]

RECURSIVE TrimStart(_)
TrimStart(t) == IF Len(t) > 0 /\ Head(t) = " " THEN TrimStart(Tail(t)) ELSE t

RECURSIVE TrimEnd(_)
TrimEnd(t) ==
  IF Len(t) > 0 /\ t[Len(t)] = " " THEN TrimEnd(SubSeq(t, 1, Len(t) - 1)) ELSE t

TrimText(t) == TrimEnd(TrimStart(t))

Includes(t, x) ==
  \E i \in 0..(Len(t) - Len(x)) : \A j \in 1..Len(x) : t[i + j] = x[j]

\* the media type and tag filters alone
ApplyTypeAndTagFilters(media) ==
  LET byType(m) == mediaType = "" \/ m.media_type = mediaType
      selectedTagsLower == NormalizeTags(uniqStrings(tagsSelected))
      byTags(m) == ItemHasAllTags(m, selectedTagsLower)
      keep(m) == byType(m) /\ byTags(m)
  IN SelectSeq(media, keep)

\* _applyClientFilters, with the filter state at the time the response is applied
ApplyClientFilters(media) ==
  LET byType(m) == mediaType = "" \/ m.media_type = mediaType
      byGender(m) == gender = "" \/ m.gender = gender
      byStatus(m) == ~(activeTab = "mine" /\ status # "") \/ m.status = status
      selectedTagsLower == NormalizeTags(uniqStrings(tagsSelected))
      byTags(m) == ItemHasAllTags(m, selectedTagsLower)
      qq == LowerText(TrimText(q))
      byText(m) == \/ Len(TrimText(q)) = 0
                   \/ Includes(LowerText(m.title), qq)
                   \/ Includes(LowerText(m.description), qq)
      keep(m) == byType(m) /\ byGender(m) /\ byStatus(m) /\ byTags(m) /\ byText(m)
  IN SelectSeq(media, keep)

\* _normalizeMediaType
NormalizeMediaType(raw) ==
  CASE raw = ""      -> ""
    [] raw = "img"   -> "image"
    [] raw = "audio" -> "audio"
    [] raw = "video" -> "video"
    [] raw = "image" -> "image"
    [] OTHER         -> raw

isProcessingStatus(st) == st \in {"queued", "processing"}

isMine == activeTab = "mine"

EndpointOf(tab) == IF tab = "mine" THEN "/media/my" ELSE "/media"

(***************************************************************************)
(* Data load                                                               *)
(***************************************************************************)
\* a _fetchWithTagFallback that sends the tags whatever the endpoint did before
FirstListReqTagged(selected, silent, pg, tab) ==
  [ endpoint |-> EndpointOf(tab),
    tagged   |-> Len(uniqStrings(selected)) > 0,
    page     |-> pg,
    silent   |-> silent,
    resp     |-> Null,
    cont     |-> "none",
    sent     |-> 1 ]

\* The request _fetchWithTagFallback issues first: it carries the tags unless
\* none are selected or the endpoint is marked broken.
FirstListReqFor(selected, silent, pg, tab) ==
  LET tags == uniqStrings(selected) IN
  [ endpoint |-> EndpointOf(tab),
    tagged   |-> Len(tags) > 0 /\ EndpointOf(tab) \notin tagsBroken,
    page     |-> pg,
    silent   |-> silent,
    resp     |-> Null,
    cont     |-> "none",  \* the caller that awaits this refresh()
    sent     |-> 1 ]    \* history: the requests this refresh() has issued

FirstListReq(silent, pg, tab) == FirstListReqFor(tagsSelected, silent, pg, tab)

\* history: the timeouts pending when an explicit refresh starts are marked
Superseded(pending) == {[p EXCEPT !.superseded = TRUE] : p \in pending}

\* refresh() up to its await, called with this.page = pg, this.activeTab = tab
RefreshCallFor(selected, silent, pg, tab) ==
  /\ LET same(r) == r.silent = silent IN
     Len(SelectSeq(listReqs, same)) < (IF silent THEN MaxPollReqs ELSE MaxListReqs)
  /\ loading' = (IF silent THEN loading ELSE TRUE)
  /\ errorMessage' = NoMsg
  /\ listReqs' = Append(listReqs, FirstListReqFor(selected, silent, pg, tab))
  /\ silent \/ pollsPending' = Superseded(pollsPending)

RefreshCall(silent, pg, tab) == RefreshCallFor(tagsSelected, silent, pg, tab)

\* _decorateItem's return value
DecorateItem(m) ==
  [ public_id      |-> m.public_id,
    media_type     |-> m.media_type,
    status         |-> m.status,
    tags           |-> m.tags,
    gender         |-> m.gender,
    title          |-> m.title,
    description    |-> m.description,
    liked          |-> m.liked,
    likes_count    |-> m.likes_count,
    _likePending   |-> FALSE,
    _hb_media_type |-> NormalizeMediaType(m.media_type),
    _thumbFailed   |-> FALSE ]

\* a refresh that shows every item of the response as not failed
ApplyNoThumbFailure(its) ==
  [k \in 1..Len(its) |-> [its[k] EXCEPT !._thumbFailed = FALSE]]

\* _applyThumbFailureState
ApplyThumbFailureState(its) ==
  [k \in 1..Len(its) |->
     [its[k] EXCEPT !._thumbFailed = its[k].public_id \in thumbFailures]]

\* whether schedulePollingIfNeeded sets a timer, for the list its
PollNeeded(its) ==
  isMine /\ \E k \in 1..Len(its) : isProcessingStatus(its[k].status)

\* the id setTimeout returns: one that no pending timeout has
FreshTimer(pending) ==
  CHOOSE t \in 1..(Cardinality(pending) + 1) :
    \A p \in pending : p.id # t

\* stopPolling, on T = [timer |-> _pollTimer, pending |-> pending timeouts]
StopPolling(T) ==
  IF T.timer # 0
    THEN [timer |-> 0, pending |-> {p \in T.pending : p.id # T.timer}]
    ELSE T

\* a schedulePollingIfNeeded that sets its timer without stopPolling()
ScheduleWithoutStop(T, its) ==
  IF ~PollNeeded(its) THEN T
  ELSE LET t == FreshTimer(T.pending) IN
       [timer |-> t,
        pending |-> T.pending \cup {[id |-> t, delay |-> POLL_DELAY_MS,
                                    superseded |-> FALSE]}]

\* schedulePollingIfNeeded, for the list its
SchedulePollingIfNeeded(T, its) ==
  LET T1 == StopPolling(T) IN
  IF ~PollNeeded(its) THEN T1
  ELSE LET t == FreshTimer(T1.pending) IN
       [timer |-> t,
        pending |-> T1.pending \cup {[id |-> t, delay |-> POLL_DELAY_MS,
                                     superseded |-> FALSE]}]

\* The backend answers a listing request: a page with the like state it holds
\* at that moment, or a failure status.
ServerItemRaw(id) ==
  [ public_id   |-> id,
    media_type  |-> Catalogue[id].media_type,
    status      |-> srvStatus[id],
    tags        |-> Catalogue[id].tags,
    gender      |-> Catalogue[id].gender,
    title       |-> Catalogue[id].title,
    description |-> Catalogue[id].description,
    liked       |-> id \in srvLiked,
    likes_count |-> ServerCount(id) ]

ListRespOk(pageIds, r) ==
  [ ok |-> TRUE, status |-> 200,
    media_items |-> [k \in 1..Len(pageIds) |-> ServerItemRaw(pageIds[k])],
    total |-> Len(pageIds), page |-> r.page ]

ListRespFail(st) == [ok |-> FALSE, status |-> st]

ListServerAnswer(k) ==
  /\ listReqs[k].resp = Null
  /\ \E resp \in {ListRespOk(p, listReqs[k]) : p \in ServerPages} :
        listReqs' = [listReqs EXCEPT ![k].resp = resp]
  /\ UNCHANGED <<filterVars, listVars, msgVars, items, thumbVars, previewOpen,
                 previewItem, tokenVars, elVars, playerVars, previewReqs,
                 likeReqs, serverVars, deleteVars, uploadVars, destroyed, likeHist>>

ListServerFail(k) ==
  /\ listReqs[k].resp = Null
  /\ \E st \in FailStatuses :
        listReqs' = [listReqs EXCEPT ![k].resp = ListRespFail(st)]
  /\ UNCHANGED <<filterVars, listVars, msgVars, items, thumbVars, previewOpen,
                 previewItem, tokenVars, elVars, playerVars, previewReqs,
                 likeReqs, serverVars, deleteVars, uploadVars, destroyed, likeHist>>

\* the rest of refresh()'s try block, once _fetchWithTagFallback returned res
HistLoaded(its) ==
  [id \in Ids |->
     LET k == IndexOf(its, id) IN
     IF k = 0 THEN [liked0 |-> FALSE, count0 |-> 0, likes |-> 0, unlikes |-> 0]
     ELSE [liked0 |-> its[k].liked, count0 |-> its[k].likes_count,
           likes |-> 0, unlikes |-> 0]]

\* a refresh keeps the number of toggles made
HistReloaded(its) ==
  [id \in Ids |-> [HistLoaded(its)[id] EXCEPT !.likes = likeHist[id].likes,
                                              !.unlikes = likeHist[id].unlikes]]

\* The list's rows are keyed by public_id: a row that stays keeps its <img>,
\* a new row gets a new <img> that starts loading thumbnail_url, and a row
\* that goes, or whose item is marked _thumbFailed, has no <img>.
RenderImgs(its, old) ==
  [id \in Ids |->
     LET k == IndexOf(its, id) IN
     IF k = 0 THEN "absent"
     ELSE IF its[k]._thumbFailed THEN "absent"
     ELSE IF old[id] = "absent" THEN "loading"
     ELSE old[id]]

\* the retry timers of an <img> that left the page stay pending
DetachTimers(imgs) ==
  [k \in 1..Len(thumbTimers) |->
     [thumbTimers[k] EXCEPT !.live = @ /\ imgs[thumbTimers[k].id] # "absent"]]

\* a confirmDelete that never steps back
StepBackNever(cont, shown, pg) == FALSE

\* confirmDelete after its first refresh(), which displayed shown on page pg
StepBackNeeded(cont, shown, pg) ==
  cont = "delete" /\ Len(shown) = 0 /\ pg > 1

RefreshApply(k) ==
  LET r == listReqs[k]
      res == r.resp
      filtered == ApplyClientFilters(res.media_items)
      media == ApplyThumbFailureState(
                 [j \in 1..Len(filtered) |-> DecorateItem(filtered[j])])
      rest == RemoveAt(listReqs, k)
      T1 == SchedulePollingIfNeeded(
              [timer |-> pollTimer, pending |-> pollsPending], media)
      \* submitUpload calls schedulePollingIfNeeded() again after its refresh()
      T == IF r.cont = "upload" THEN SchedulePollingIfNeeded(T1, media) ELSE T1
  IN
  /\ res # Null /\ res.ok
  /\ items' = media
  /\ total' = res.total
  /\ pollTimer' = T.timer
  /\ IF StepBackNeeded(r.cont, media, res.page)
       THEN \* confirmDelete: this.page = this.page - 1; await this.refresh()
            /\ page' = res.page - 1
            /\ loading' = TRUE
            /\ errorMessage' = NoMsg
            /\ listReqs' = Append(rest, FirstListReq(FALSE, res.page - 1, activeTab))
            /\ pollsPending' = Superseded(T.pending)
       ELSE /\ page' = res.page
            /\ loading' = (IF r.silent THEN loading ELSE FALSE)
            /\ errorMessage' = errorMessage
            /\ listReqs' = rest
            /\ pollsPending' = T.pending
     \* _decorateItem resets the playback hardening state for every item
  /\ IF Len(filtered) > 0
       THEN /\ hbTimer' = FALSE
            /\ security' = Null
            /\ streamToken' = 0
            /\ sessOfToken' = 0
       ELSE UNCHANGED tokenVars
  /\ likeHist' = HistReloaded(media)
  /\ imgState' = RenderImgs(media, imgState)
  /\ thumbTimers' = DetachTimers(RenderImgs(media, imgState))
     \* submitUpload's finally block
  /\ uploadBusy' = (IF r.cont = "upload" THEN FALSE ELSE uploadBusy)
  /\ UNCHANGED <<filterVars, activeTab, tagsBroken, noticeMessage, thumbRetryById,
                 thumbFailures, thumbHist,
                 previewOpen, previewItem, elVars, playerVars, previewReqs,
                 likeReqs, serverVars, deleteVars, draftVars, uploadReqs,
                 uploadTermsUrl, destroyed>>

\* _fetchWithTagFallback's catch for status 500: mark the endpoint, set the
\* notice, ask again without tags
RefreshTagFallback(k) ==
  LET r == listReqs[k] IN
  /\ r.resp # Null /\ ~r.resp.ok
  /\ r.tagged /\ r.resp.status = 500
  /\ tagsBroken' = tagsBroken \cup {r.endpoint}
  /\ noticeMessage' = "Tag filtering caused a server error."
  /\ listReqs' = Append(RemoveAt(listReqs, k), [r EXCEPT !.tagged = FALSE, !.resp = Null, !.sent = @ + 1])
  /\ UNCHANGED <<filterVars, activeTab, loading, page, total, pollTimer,
                 pollsPending,
                 errorMessage, items, thumbVars, previewOpen, previewItem,
                 tokenVars, elVars, playerVars, previewReqs, likeReqs,
                 serverVars, deleteVars, uploadVars, destroyed, likeHist>>

\* refresh()'s catch and finally
RefreshErrorMessage(st) ==
  IF st = 403 \/ st = 404 THEN "media_gallery.errors.not_available" ELSE "Error"

RefreshFail(k) ==
  LET r == listReqs[k]
      T0 == [timer |-> pollTimer, pending |-> pollsPending]
      \* submitUpload calls schedulePollingIfNeeded() after its refresh()
      T == IF r.cont = "upload" THEN SchedulePollingIfNeeded(T0, items) ELSE T0
  IN
  /\ r.resp # Null /\ ~r.resp.ok
  /\ ~(r.tagged /\ r.resp.status = 500)
  /\ IF StepBackNeeded(r.cont, items, page)
       THEN \* confirmDelete: this.page = this.page - 1; await this.refresh()
            /\ page' = page - 1
            /\ loading' = TRUE
            /\ errorMessage' = NoMsg
            /\ listReqs' = Append(RemoveAt(listReqs, k),
                                  FirstListReq(FALSE, page - 1, activeTab))
            /\ pollsPending' = Superseded(pollsPending)
       ELSE /\ page' = page
            /\ loading' = (IF r.silent THEN loading ELSE FALSE)
            /\ errorMessage' = RefreshErrorMessage(r.resp.status)
            /\ listReqs' = RemoveAt(listReqs, k)
            /\ pollsPending' = T.pending
  /\ pollTimer' = T.timer
     \* submitUpload's finally block
  /\ uploadBusy' = (IF r.cont = "upload" THEN FALSE ELSE uploadBusy)
  /\ UNCHANGED <<filterVars, activeTab, total,
                 tagsBroken,
                 noticeMessage, items, thumbVars, previewOpen, previewItem,
                 tokenVars, elVars, playerVars, previewReqs, likeReqs,
                 serverVars, deleteVars, draftVars, uploadReqs, uploadTermsUrl, destroyed,
                 likeHist>>

\* everything a filter, tab or paging action leaves alone besides what
\* refresh() touches
navFrame == <<total, pollTimer, tagsBroken, items, thumbVars,
              previewOpen, previewItem, tokenVars, elVars, playerVars,
              previewReqs, likeReqs, serverVars, deleteVars, uploadVars, destroyed, likeHist>>

(***************************************************************************)
(* Tabs and filters                                                        *)
(***************************************************************************)
switchTab(tab) ==
  /\ activeTab # tab
  /\ noticeMessage' = NoMsg
  /\ activeTab' = tab
  /\ page' = 1
  /\ RefreshCall(FALSE, 1, tab)
  /\ UNCHANGED <<filterVars, navFrame>>

applyFilters ==
  /\ noticeMessage' = NoMsg
  /\ page' = 1
  /\ RefreshCall(FALSE, 1, activeTab)
  /\ UNCHANGED <<filterVars, activeTab, navFrame>>

setMediaType(v) ==
  /\ mediaType # v
  /\ mediaType' = v
  /\ UNCHANGED <<tagsSelected, gender, status, q, listVars, msgVars, items, thumbVars, previewOpen,
                 previewItem, tokenVars, elVars, playerVars, previewReqs,
                 likeReqs, listReqs, serverVars, deleteVars, uploadVars, destroyed, likeHist>>

filterFrame == <<listVars, msgVars, items, thumbVars, previewOpen, previewItem,
                 tokenVars, elVars, playerVars, previewReqs, likeReqs, listReqs,
                 serverVars, deleteVars, uploadVars, destroyed, likeHist>>

setQ(v) ==
  /\ q # v
  /\ q' = v
  /\ UNCHANGED <<mediaType, tagsSelected, gender, status, filterFrame>>

setGender(v) ==
  /\ gender # v
  /\ gender' = v
  /\ UNCHANGED <<mediaType, tagsSelected, status, q, filterFrame>>

setStatus(v) ==
  /\ status # v
  /\ status' = v
  /\ UNCHANGED <<mediaType, tagsSelected, gender, q, filterFrame>>

clearFilters ==
  /\ noticeMessage' = NoMsg
  /\ q' = <<>>
  /\ mediaType' = ""
  /\ gender' = ""
  /\ tagsSelected' = <<>>
  /\ status' = ""
  /\ page' = 1
  /\ RefreshCallFor(<<>>, FALSE, 1, activeTab)
  /\ UNCHANGED <<activeTab, navFrame>>

addFilterTag(tag) ==
  LET t == Trim(tag) IN
  /\ t # ""
  /\ Len(tagsSelected) < MaxTagsSelected
  /\ tagsSelected' = uniqStrings(Append(tagsSelected, t))
  /\ tagsSelected' # tagsSelected
  /\ UNCHANGED <<mediaType, gender, status, q, listVars, msgVars, items,
                 thumbVars, previewOpen,
                 previewItem, tokenVars, elVars, playerVars, previewReqs,
                 likeReqs, listReqs, serverVars, deleteVars, uploadVars, destroyed, likeHist>>

removeFilterTag(tag) ==
  LET t == Lower(Trim(tag))
      ne(x) == Lower(x) # t
  IN
  /\ tagsSelected' = SelectSeq(tagsSelected, ne)
  /\ tagsSelected' # tagsSelected
  /\ UNCHANGED <<mediaType, gender, status, q, listVars, msgVars, items,
                 thumbVars, previewOpen,
                 previewItem, tokenVars, elVars, playerVars, previewReqs,
                 likeReqs, listReqs, serverVars, deleteVars, uploadVars, destroyed, likeHist>>

(***************************************************************************)
(* Like / Unlike                                                           *)
(***************************************************************************)
\* an update that writes every field but likes_count
UpdateKeepsCount(publicId, updates) ==
  LET idx == IndexOf(items, publicId) IN
  IF Len(items) = 0 \/ idx = 0
    THEN <<items, previewItem>>
    ELSE LET updated == [Spread(items[idx], updates) EXCEPT
                           !.likes_count = items[idx].likes_count] IN
         << [items EXCEPT ![idx] = updated],
            IF previewOpen /\ previewItem # Null /\ previewItem.public_id = publicId
              THEN updated ELSE previewItem >>

\* _updateItemByPublicId: the new <<items, previewItem>>
UpdateItemByPublicId(publicId, updates) ==
  LET idx == IndexOf(items, publicId) IN
  IF Len(items) = 0 \/ idx = 0
    THEN <<items, previewItem>>
    ELSE LET updated == Spread(items[idx], updates) IN
         << [items EXCEPT ![idx] = updated],
            IF previewOpen /\ previewItem # Null /\ previewItem.public_id = publicId
              THEN updated ELSE previewItem >>

\* The objects a like button is rendered for: the rows of the list.
Rendered == {items[k] : k \in 1..Len(items)}

\* a count that only ever goes up
NextCountUp(wasLiked, wasCount) == Max(0, wasCount + 1)

NextCount(wasLiked, wasCount) ==
  Max(0, IF wasLiked THEN wasCount - 1 ELSE wasCount + 1)

HistToggle(id, wasLiked) ==
  [likeHist EXCEPT ![id] =
     IF wasLiked THEN [@ EXCEPT !.unlikes = @ + 1] ELSE [@ EXCEPT !.likes = @ + 1]]

RECURSIVE SumOver(_, _)
SumOver(f, S) ==
  IF S = {} THEN 0
  ELSE LET x == CHOOSE y \in S : TRUE IN f[x] + SumOver(f, S \ {x})

TogglesMade ==
  SumOver([id \in Ids |-> likeHist[id].likes + likeHist[id].unlikes], Ids)

\* toggleLike up to its await: guard, optimistic update, request
toggleLike(item) ==
  LET publicId == item.public_id
      wasLiked == item.liked
      wasCount == item.likes_count
      upd == UpdateItemByPublicId(publicId,
               [liked |-> ~wasLiked,
                likes_count |-> NextCount(wasLiked, wasCount),
                _likePending |-> TRUE])
  IN
  /\ ~item._likePending
  /\ Len(likeReqs) < MaxLikeReqs
  /\ TogglesMade < MaxToggles
  /\ items' = upd[1]
  /\ previewItem' = upd[2]
  /\ likeReqs' = Append(likeReqs,
                   [id |-> publicId, unlike |-> wasLiked,
                    wasLiked |-> wasLiked, wasCount |-> wasCount,
                    \* history: the list entry before the optimistic update
                    before |-> items[IndexOf(items, publicId)]])
  /\ likeHist' = HistToggle(publicId, wasLiked)
  /\ UNCHANGED <<likeFrame, msgVars, previewOpen, listReqs, serverVars, deleteVars, uploadVars, destroyed>>

ToggleLike == \E item \in Rendered : toggleLike(item)

\* POST /media/:id/like or /unlike answered with success
LikeSucceed(k) ==
  LET r == likeReqs[k]
      upd == UpdateItemByPublicId(r.id, [_likePending |-> FALSE])
  IN
  /\ srvLiked' = IF r.unlike THEN srvLiked \ {r.id} ELSE srvLiked \cup {r.id}
  /\ UNCHANGED <<srvPlayback, deleteVars, uploadVars, destroyed>>
  /\ items' = upd[1]
  /\ previewItem' = upd[2]
  /\ likeReqs' = RemoveAt(likeReqs, k)
  /\ UNCHANGED <<likeFrame, msgVars, previewOpen, listReqs, srvOthers, likeHist>>

\* a rollback that recomputes the count instead of restoring it
RollbackRecomputed(r) ==
  [liked |-> r.wasLiked,
   likes_count |-> NextCount(r.wasLiked, r.wasCount),
   _likePending |-> FALSE]

\* the catch branch of toggleLike: roll back and surface the error
RollbackUpdates(r) ==
  [liked |-> r.wasLiked, likes_count |-> r.wasCount, _likePending |-> FALSE]

LikeFail(k) ==
  LET r == likeReqs[k]
      upd == UpdateItemByPublicId(r.id, RollbackUpdates(r))
  IN
  /\ items' = upd[1]
  /\ previewItem' = upd[2]
  /\ errorMessage' = "Error"
  /\ likeReqs' = RemoveAt(likeReqs, k)
  /\ UNCHANGED <<likeFrame, noticeMessage, previewOpen, listReqs, serverVars, deleteVars, uploadVars, destroyed, likeHist>>

(***************************************************************************)
(* Preview / playback.  A handler's synchronous segment is computed on a   *)
(* record P of the preview state and written back by SetP.                 *)
(***************************************************************************)
Cur ==
  [ open |-> previewOpen, item |-> previewItem, url |-> previewStreamUrl,
    loadingP |-> previewLoading, streamLoading |-> previewStreamLoading,
    retry |-> previewRetryCount, isPlaying |-> previewIsPlaying,
    fs |-> previewFullscreen, mediaEl |-> mediaEl, tok |-> streamToken,
    sec |-> security, hb |-> hbTimer, hls |-> hls, attached |-> sourceAttached,
    isHls |-> isHls, sess |-> sess, elPaused |-> elPaused, elAtEnd |-> elAtEnd,
    elSrc |-> elSrc, elEvents |-> elEvents, hlsMode |-> hlsMode, conts |-> conts,
    playReqs |-> playReqs, hbReqs |-> hbReqs, revokeReqs |-> revokeReqs,
    err |-> errorMessage, notice |-> noticeMessage,
    playPressed |-> playPressed, endedToks |-> endedToks,
    errFetches |-> errFetches, errorsLeft |-> playerErrorsLeft,
    sessOfToken |-> sessOfToken ]

SetP(P) ==
  /\ previewOpen' = P.open
  /\ previewItem' = P.item
  /\ previewStreamUrl' = P.url
  /\ previewLoading' = P.loadingP
  /\ previewStreamLoading' = P.streamLoading
  /\ previewRetryCount' = P.retry
  /\ previewIsPlaying' = P.isPlaying
  /\ previewFullscreen' = P.fs
  /\ mediaEl' = P.mediaEl
  /\ streamToken' = P.tok
  /\ security' = P.sec
  /\ hbTimer' = P.hb
  /\ hls' = P.hls
  /\ sourceAttached' = P.attached
  /\ isHls' = P.isHls
  /\ sess' = P.sess
  /\ elPaused' = P.elPaused
  /\ elAtEnd' = P.elAtEnd
  /\ elSrc' = P.elSrc
  /\ elEvents' = P.elEvents
  /\ hlsMode' = P.hlsMode
  /\ UNCHANGED elDropsOnLoad
  /\ playerErrorsLeft' = P.errorsLeft
  /\ conts' = P.conts
  /\ playReqs' = P.playReqs
  /\ hbReqs' = P.hbReqs
  /\ revokeReqs' = P.revokeReqs
  /\ errorMessage' = P.err
  /\ noticeMessage' = P.notice
  /\ playPressed' = P.playPressed
  /\ endedToks' = P.endedToks
  /\ errFetches' = P.errFetches
  /\ sessOfToken' = P.sessOfToken

\* what the preview code leaves alone
previewFrame == <<filterVars, listVars, items, thumbVars, likeReqs, listReqs,
                  serverVars, deleteVars, uploadVars, destroyed, likeHist>>

\* the state P a handler leaves is within the bounds of the model
Fits(P) ==
  /\ Len(P.hbReqs) <= MaxHbReqs
  /\ Len(P.revokeReqs) <= MaxRevokeReqs
  /\ Len(P.playReqs) <= MaxPlayReqs
  /\ Len(P.conts) <= MaxConts
  /\ Len(P.elEvents) <= MaxEvents

\* a handler's segment that leaves the preview state P
Leaves(P) == Fits(P) /\ SetP(P)

\* previewMediaType
MediaTypeOf(item) ==
  IF item = Null THEN ""
  ELSE IF item._hb_media_type # "" THEN item._hb_media_type
  ELSE NormalizeMediaType(item.media_type)

\* el is the element the preview currently renders
ElCurrent(P, elSess) == P.open /\ P.mediaEl /\ elSess = P.sess

\* el.pause(): the paused flag flips at once, the "pause" event is queued
PauseEl(P, elSess) ==
  IF ElCurrent(P, elSess) /\ ~P.elPaused
    THEN [P EXCEPT !.elPaused = TRUE, !.elEvents = Append(@, "pause")]
    ELSE P

\* el.play()
PlayEl(P, elSess) ==
  IF ElCurrent(P, elSess) /\ P.elPaused
    THEN [P EXCEPT !.elPaused = FALSE, !.elEvents = Append(@, "play")]
    ELSE P

\* the element is given a source (or none): el.src = ...; el.load()
LoadEl(P) ==
  [P EXCEPT !.elEvents = IF elDropsOnLoad THEN <<>> ELSE @]

\* a teardown that leaves the heartbeat timer running
KeepPreviewHeartbeat(P) == P

\* _stopPreviewHeartbeat
StopPreviewHeartbeat(P) == [P EXCEPT !.hb = FALSE]

HeartbeatEnabled(P) == P.sec # Null /\ P.sec.heartbeat_enabled

\* _sendPreviewHeartbeat up to its await
SendPreviewHeartbeat(P) ==
  IF ~P.open \/ P.tok = 0 \/ ~HeartbeatEnabled(P) THEN P
  ELSE [P EXCEPT !.hbReqs = Append(@, [token |-> P.tok])]

\* _startPreviewHeartbeat
StartPreviewHeartbeat(P) ==
  IF P.hb \/ ~P.open \/ P.tok = 0 \/ ~HeartbeatEnabled(P) THEN P
  ELSE [SendPreviewHeartbeat(P) EXCEPT !.hb = TRUE]

\* this._previewRevokePromise = this._revokePreviewToken(): a request is
\* issued only under a revoke-enabled policy and with a token held; the
\* promise a later play races against is the one of this call (current)
RevokeIssues(P) == P.sec # Null /\ P.sec.revoke_enabled /\ P.tok # 0

RevokePreviewToken(P, cont) ==
  LET old == [k \in 1..Len(P.revokeReqs) |-> [P.revokeReqs[k] EXCEPT !.current = FALSE]]
  IN IF RevokeIssues(P)
       THEN [P EXCEPT !.revokeReqs =
               Append(old, [token |-> P.tok, current |-> TRUE, cont |-> cont])]
       ELSE [P EXCEPT !.revokeReqs = old]

\* _destroyPreviewHls
DestroyPreviewHls(P) == [P EXCEPT !.hls = FALSE]

\* _clearPreviewMediaSource
ClearPreviewMediaSource(P) ==
  LET Q == PauseEl(DestroyPreviewHls(P), P.sess) IN
  [(IF Q.mediaEl THEN LoadEl(Q) ELSE Q) EXCEPT
            !.elSrc = IF Q.mediaEl THEN 0 ELSE @,
            !.elAtEnd = IF Q.mediaEl THEN FALSE ELSE @,
            !.attached = FALSE,
            !.isHls = FALSE]

\* el.src = url on the element el
SetSrc(P, elSess, tok) ==
  IF ElCurrent(P, elSess)
    THEN [LoadEl(P) EXCEPT !.elSrc = tok, !.elAtEnd = FALSE]
    ELSE P

\* _attachHlsToPreview after its await (or without one): the element it
\* attaches to is the one registered when it was called
AttachHlsFinish(P, url, attachSess, wasSet) ==
  IF ~wasSet THEN P
  ELSE IF P.hlsMode = "native"
    THEN [SetSrc(DestroyPreviewHls(P), attachSess, url.tok) EXCEPT !.attached = TRUE]
    ELSE [SetSrc(DestroyPreviewHls(P), attachSess, url.tok)
            EXCEPT !.hls = TRUE, !.attached = TRUE, !.hlsMode = "hlsjs"]

\* what follows the attachment in its caller: togglePreviewPlayback plays the
\* element it captured; onPlayerError resumes playback and the heartbeat
AfterAttach(P, after, elSess) ==
  IF after = "play" THEN PlayEl(P, elSess)
  ELSE IF P.isPlaying
    THEN StartPreviewHeartbeat(PlayEl(P, elSess))
    ELSE P

\* await this._attachHlsToPreview(url), and what follows it
AttachHlsToPreview(P, url, after, elSess) ==
  IF P.mediaEl /\ P.hlsMode = "hlsjs-unloaded"
    THEN [P EXCEPT !.conts = Append(@,
            [kind |-> "attach", url |-> url, attachSess |-> P.sess,
             after |-> after, elSess |-> elSess, mt |-> ""])]
    ELSE AfterAttach(AttachHlsFinish(P, url, P.sess, P.mediaEl), after, elSess)

\* togglePreviewPlayback from "Attach the stream URL to the element" on, with
\* the mt and el the call captured
AttachSection(P, mt, elSess) ==
  IF mt \in {"video", "audio"}
    THEN IF P.url = Null THEN P
         ELSE IF mt = "video" /\ P.url.hls
           THEN IF ~P.attached
                  THEN AttachHlsToPreview(P, P.url, "play", elSess)
                  ELSE PlayEl(P, elSess)
           ELSE LET current == IF ElCurrent(P, elSess) THEN P.elSrc ELSE 0
                    desired == IF P.tok # 0 THEN P.tok ELSE P.url.tok
                    Q == IF current = 0 \/ current # desired
                           THEN [SetSrc(P, elSess, P.url.tok) EXCEPT !.attached = TRUE]
                           ELSE P
                IN PlayEl(Q, elSess)
    ELSE PlayEl(P, elSess)

\* fetchPreviewStreamUrl up to its await; Null item: it returns at once
FetchIssues(P) == P.item # Null

FetchPreviewStreamUrl(P, resetRetry, by, mt, elSess) ==
  [P EXCEPT !.retry = IF resetRetry THEN 0 ELSE @,
            !.playReqs = Append(@,
               [id |-> P.item.public_id, by |-> by, mt |-> mt,
                elSess |-> elSess, sess |-> P.sess])]

\* fetchPreviewStreamUrl after its await: stale responses are ignored
FetchApply(P, r, grant) ==
  IF ~P.open \/ P.item = Null \/ P.item.public_id # r.id THEN P
  ELSE [P EXCEPT !.url = [tok |-> grant.token, hls |-> grant.hls],
                 !.sec = grant.security,
                 !.tok = grant.token,
                 !.isHls = grant.hls,
                 !.sessOfToken = r.sess]

\* togglePreviewPlayback's token acquisition once the revoke race is over
AcquireForPlay(P, mt, elSess) ==
  IF FetchIssues(P)
    THEN FetchPreviewStreamUrl(P, TRUE, "play", mt, elSess)
    ELSE AttachSection([P EXCEPT !.streamLoading = FALSE], mt, elSess)

RevokePending(P) == \E k \in 1..Len(P.revokeReqs) : P.revokeReqs[k].current

\* togglePreviewPlayback up to its first await
TogglePlayback(P0) ==
  LET mt == MediaTypeOf(P0.item)
      elSess == P0.sess
      replayRequested == P0.elAtEnd
      R1 == [PauseEl(P0, elSess) EXCEPT !.isPlaying = FALSE, !.elAtEnd = FALSE]
      R2 == IF mt \in {"video", "audio"}
              THEN ClearPreviewMediaSource([R1 EXCEPT !.url = Null, !.tok = 0,
                                                      !.sessOfToken = 0])
              ELSE R1
      P1 == [(IF replayRequested THEN R2 ELSE P0) EXCEPT !.playPressed = TRUE]
  IN
  IF ~P0.mediaEl THEN P0
  ELSE IF ~P1.elPaused /\ ~P1.elAtEnd THEN PauseEl(P1, elSess)
  ELSE IF mt \in {"video", "audio"} /\ P1.url = Null
    THEN IF P1.streamLoading THEN P1
         ELSE LET P2 == [P1 EXCEPT !.streamLoading = TRUE, !.err = NoMsg] IN
              IF RevokePending(P2)
                THEN [P2 EXCEPT !.conts = Append(@,
                        [kind |-> "race", url |-> Null, attachSess |-> 0,
                         after |-> "play", elSess |-> elSess, mt |-> mt])]
                ELSE AcquireForPlay(P2, mt, elSess)
    ELSE AttachSection(P1, mt, elSess)

togglePreviewPlayback ==
  /\ mediaEl
  /\ Leaves(TogglePlayback(Cur))
  /\ UNCHANGED <<previewFrame, tokenSeq>>

\* a suspended call resumes: the revoke race is over (the revoke answered or
\* 1200 ms passed), or the adaptive-streaming script has loaded
\* The calls suspended in _attachHlsToPreview all await the one promise that
\* loadScriptOnce caches: when the script has loaded they resume one after the
\* other, in the order they were suspended, before any other event is handled.
RECURSIVE ResumeAttaches(_, _)
ResumeAttaches(P, cs) ==
  IF cs = <<>> THEN P
  ELSE LET c == Head(cs) IN
       ResumeAttaches(AfterAttach(AttachHlsFinish(P, c.url, c.attachSess, TRUE),
                                  c.after, c.elSess),
                      Tail(cs))

ResumeCont(k) ==
  LET c == conts[k]
      isAttach(x) == x.kind = "attach"
      notAttach(x) == x.kind # "attach"
  IN
  /\ IF c.kind = "race"
       THEN Leaves(AcquireForPlay([Cur EXCEPT !.conts = RemoveAt(conts, k)],
                                  c.mt, c.elSess))
       ELSE Leaves(ResumeAttaches([Cur EXCEPT !.conts = SelectSeq(conts, notAttach)],
                                  SelectSeq(conts, isAttach)))
  /\ UNCHANGED <<previewFrame, tokenSeq>>

\* registerPreviewMedia: the did-insert hook of the <video>/<audio> element
registerPreviewMedia ==
  /\ previewOpen /\ ~mediaEl
  /\ MediaTypeOf(previewItem) \in {"video", "audio"}
  /\ mediaEl' = TRUE
  /\ UNCHANGED <<previewFrame, tokenSeq, msgVars, previewOpen, previewItem,
                 tokenVars, sess, elPaused, elAtEnd, elSrc, elEvents, hlsMode,
                 elDropsOnLoad, playerErrorsLeft, playerVars, playReqs, hbReqs,
                 revokeReqs>>

\* openPreview
OpenPreview(P0, item) ==
  LET mt == NormalizeMediaType(item.media_type)
      P1 == [DestroyPreviewHls(P0) EXCEPT
               !.open = TRUE, !.item = item, !.url = Null,
               !.attached = FALSE, !.isHls = FALSE,
               !.loadingP = (mt = "image"), !.streamLoading = FALSE,
               !.retry = 0, !.isPlaying = FALSE, !.fs = FALSE,
               !.mediaEl = FALSE, !.err = NoMsg,
               \* the modal renders a new media element for the item
               !.sess = @ + 1, !.elPaused = TRUE, !.elAtEnd = FALSE,
               !.elSrc = 0, !.elEvents = <<>>, !.playPressed = FALSE,
               !.errFetches = 0]
  IN IF mt = "image"
       THEN FetchPreviewStreamUrl(P1, TRUE, "open", mt, P1.sess)
       ELSE [P1 EXCEPT !.loadingP = FALSE]

openPreview(item) ==
  /\ sess < MaxSessions
  /\ Leaves(OpenPreview(Cur, item))
  /\ UNCHANGED <<previewFrame, tokenSeq>>

\* closePreview
ClosePreview(P0) ==
  LET P1 == StopPreviewHeartbeat(PauseEl(P0, P0.sess))
      P2 == [RevokePreviewToken(P1, "close") EXCEPT !.sec = Null, !.tok = 0,
                                                   !.sessOfToken = 0]
      P3 == ClearPreviewMediaSource(P2)
  IN [P3 EXCEPT !.open = FALSE, !.item = Null, !.url = Null,
                !.loadingP = FALSE, !.streamLoading = FALSE, !.retry = 0,
                !.isPlaying = FALSE, !.fs = FALSE, !.mediaEl = FALSE,
                !.errFetches = 0,
                \* the modal and its media element are removed
                !.elPaused = TRUE, !.elAtEnd = FALSE, !.elSrc = 0,
                !.elEvents = <<>>]

closePreview ==
  /\ Leaves(ClosePreview(Cur))
  /\ UNCHANGED <<previewFrame, tokenSeq>>

\* togglePreviewFullscreen / onFullscreenChange
togglePreviewFullscreen ==
  /\ previewOpen
  /\ previewFullscreen' = ~previewFullscreen
  /\ UNCHANGED <<previewFrame, tokenSeq, msgVars, previewOpen, previewItem,
                 tokenVars, elVars, previewStreamUrl, previewLoading,
                 previewStreamLoading, previewRetryCount, previewIsPlaying,
                 hls, sourceAttached, isHls, conts, playPressed, endedToks,
                 errFetches,
                 playReqs, hbReqs, revokeReqs>>

\* the queued media event at the head is dispatched
OnPreviewPlay(P) == StartPreviewHeartbeat([P EXCEPT !.isPlaying = TRUE])

OnPreviewPause(P) == StopPreviewHeartbeat([P EXCEPT !.isPlaying = FALSE])

\* an end of playback that only stops the heartbeat
EndedKeepsStream(P0) == StopPreviewHeartbeat([P0 EXCEPT !.isPlaying = FALSE])

OnPreviewEnded(P0) ==
  LET P1 == StopPreviewHeartbeat([P0 EXCEPT !.isPlaying = FALSE])
      P2 == [RevokePreviewToken(P1, "ended") EXCEPT !.url = Null, !.tok = 0,
                                                   !.sessOfToken = 0,
                                                   !.endedToks = @ \cup ({P1.tok} \ {0})]
  IN IF P2.mediaEl THEN [LoadEl(P2) EXCEPT !.elSrc = 0, !.elAtEnd = FALSE] ELSE P2

DispatchMediaEvent ==
  LET ev == Head(elEvents)
      P == [Cur EXCEPT !.elEvents = Tail(elEvents)]
  IN
  /\ Len(elEvents) > 0
  /\ Leaves(CASE ev = "play"  -> OnPreviewPlay(P)
            [] ev = "pause" -> OnPreviewPause(P)
            [] OTHER        -> OnPreviewEnded(P))
  /\ UNCHANGED <<previewFrame, tokenSeq>>

\* the element reaches the end of its media: it pauses and raises "ended"
MediaEnds ==
  /\ previewOpen /\ ~elPaused /\ elSrc # 0
  /\ Len(elEvents) = 0
  /\ elPaused' = TRUE
  /\ elAtEnd' = TRUE
  /\ elEvents' = <<"pause", "ended">>
  /\ UNCHANGED <<previewFrame, tokenSeq, msgVars, previewOpen, previewItem,
                 tokenVars, mediaEl, sess, elSrc, hlsMode, elDropsOnLoad,
                 playerErrorsLeft,
                 playerVars, playReqs, hbReqs, revokeReqs>>

\* seekPreview to the end of a paused element
seekPreviewToEnd ==
  /\ previewOpen /\ mediaEl /\ elPaused /\ elSrc # 0 /\ ~elAtEnd
  /\ elAtEnd' = TRUE
  /\ UNCHANGED <<previewFrame, tokenSeq, msgVars, previewOpen, previewItem,
                 tokenVars, mediaEl, sess, elPaused, elSrc, elEvents, hlsMode,
                 elDropsOnLoad, playerErrorsLeft, playerVars, playReqs, hbReqs,
                 revokeReqs>>

\* the heartbeat interval fires
HeartbeatTick ==
  /\ hbTimer
  /\ Leaves(SendPreviewHeartbeat(Cur))
  /\ hbReqs' # hbReqs
  /\ UNCHANGED <<previewFrame, tokenSeq>>

\* a heartbeat is answered with success, or with a failure other than 429
HeartbeatAnswered(k) ==
  /\ hbReqs' = RemoveAt(hbReqs, k)
  /\ UNCHANGED <<previewFrame, tokenSeq, msgVars, previewOpen, previewItem,
                 tokenVars, elVars, playerVars, playReqs, revokeReqs>>

\* _sendPreviewHeartbeat's 429 branch after the revoke was awaited
Heartbeat429Finish(P0) ==
  LET P1 == ClearPreviewMediaSource(PauseEl(P0, P0.sess)) IN
  [P1 EXCEPT !.isPlaying = FALSE, !.url = Null, !.tok = 0, !.sessOfToken = 0,
             !.notice = "Playback blocked: too many active sessions."]

\* _sendPreviewHeartbeat's 429 branch up to its await
Heartbeat429Start(P0) ==
  LET P1 == RevokePreviewToken(P0, "hb429") IN
  IF RevokeIssues(P0) THEN P1 ELSE Heartbeat429Finish(P1)

Heartbeat429(k) ==
  /\ Leaves(Heartbeat429Start([Cur EXCEPT !.hbReqs = RemoveAt(hbReqs, k)]))
  /\ UNCHANGED <<previewFrame, tokenSeq>>

\* POST /media/revoke is answered (success and failure are handled alike)
RevokeAnswered(k) ==
  LET r == revokeReqs[k]
      P == [Cur EXCEPT !.revokeReqs = RemoveAt(revokeReqs, k)]
  IN
  /\ Leaves(IF r.cont = "hb429" THEN Heartbeat429Finish(P) ELSE P)
  /\ UNCHANGED <<previewFrame, tokenSeq>>

\* onPlayerError up to its await
OnPlayerError(P0) ==
  IF ~P0.open \/ P0.item = Null \/ P0.url = Null THEN P0
  ELSE LET P1 == StopPreviewHeartbeat(P0) IN
       IF P1.retry >= 3 THEN P1
       ELSE FetchPreviewStreamUrl([P1 EXCEPT !.retry = @ + 1,
                                             !.errFetches = @ + 1],
                                  FALSE, "error", MediaTypeOf(P1.item), P1.sess)

\* an error event the handler ignores changes nothing and is not counted
onPlayerError ==
  /\ previewOpen
  /\ playerErrorsLeft > 0
  /\ LET P == OnPlayerError(Cur) IN
     Leaves(IF P = Cur THEN P ELSE [P EXCEPT !.errorsLeft = @ - 1])
  /\ UNCHANGED <<previewFrame, tokenSeq>>

\* onPlayerError after fetchPreviewStreamUrl returned
PlayerErrorReattach(P0) ==
  IF P0.mediaEl /\ P0.url # Null
    THEN LET P1 == ClearPreviewMediaSource(P0) IN
         IF P1.url.hls
           THEN AttachHlsToPreview(P1, P1.url, "error", P1.sess)
           ELSE AfterAttach([SetSrc(P1, P1.sess, P1.url.tok) EXCEPT !.attached = TRUE],
                            "error", P1.sess)
    ELSE P0

\* GET /media/:id/play is answered with a grant
PlayGranted(P0, r, grant) ==
  LET P1 == FetchApply(P0, r, grant) IN
  CASE r.by = "open"  -> [P1 EXCEPT !.loadingP = FALSE]
    [] r.by = "play"  -> AttachSection([P1 EXCEPT !.streamLoading = FALSE], r.mt, r.elSess)
    [] OTHER          -> PlayerErrorReattach(P1)

Grant(r) ==
  [ token |-> tokenSeq + 1,
    hls |-> Catalogue[r.id].media_type = "video" /\ srvPlayback.hls,
    security |-> srvPlayback.security ]

PlayAnswered(k) ==
  /\ tokenSeq < MaxTokens
  /\ Leaves(PlayGranted([Cur EXCEPT !.playReqs = RemoveAt(playReqs, k)],
                        playReqs[k], Grant(playReqs[k])))
  /\ tokenSeq' = tokenSeq + 1
  /\ UNCHANGED previewFrame

\* every failure status handled as a hard error
PlayRefusedAsError(P0, r, st) ==
  CASE r.by = "open" -> [P0 EXCEPT !.err = "Error", !.loadingP = FALSE]
    [] r.by = "play" -> AttachSection([P0 EXCEPT !.err = "Error",
                                                 !.streamLoading = FALSE],
                                      r.mt, r.elSess)
    [] OTHER -> P0

\* GET /media/:id/play fails with status st
PlayRefused(P0, r, st) ==
  CASE r.by = "open" -> [P0 EXCEPT !.err = "Error", !.loadingP = FALSE]
    [] r.by = "play" ->
         LET P1 == IF st = 429
                     THEN [P0 EXCEPT !.notice = "Error", !.url = Null, !.tok = 0,
                                     !.sessOfToken = 0]
                     ELSE [P0 EXCEPT !.err = "Error"]
         IN AttachSection([P1 EXCEPT !.streamLoading = FALSE], r.mt, r.elSess)
    [] OTHER -> P0

PlayFailedWith(k, st) ==
  /\ Leaves(PlayRefused([Cur EXCEPT !.playReqs = RemoveAt(playReqs, k)],
                        playReqs[k], st))
  /\ UNCHANGED <<previewFrame, tokenSeq>>

PlayFailed(k) == \E st \in {429, 403} : PlayFailedWith(k, st)

(***************************************************************************)
(* Thumbnails                                                              *)
(***************************************************************************)
\* items with the entry of id, if any, given the flag _thumbFailed = b
SetThumbFailed(id, b) ==
  LET k == IndexOf(items, id) IN
  IF k = 0 THEN items
  ELSE [items EXCEPT ![k] = [@ EXCEPT !._thumbFailed = b]]

ThumbRetryDelay(attempt) == THUMB_RETRY_BASE_DELAY_MS * 2^(attempt - 1)

thumbFrame == <<filterVars, listVars, msgVars, previewOpen, previewItem,
                tokenVars, elVars, playerVars, previewReqs, likeReqs, listReqs,
                serverVars, deleteVars, uploadVars, destroyed, likeHist>>

\* onThumbError, called by the error event of the <img> of id
onThumbError(id) ==
  LET attempt == thumbRetryById[id] + 1
      h == thumbHist[id]
  IN
  /\ imgState[id] = "loading"
  /\ id \in FailingThumbs
  /\ h.consec < MaxThumbErrors
  /\ attempt <= THUMB_RETRY_LIMIT => Len(thumbTimers) < MaxThumbTimers
  /\ IF attempt <= THUMB_RETRY_LIMIT
       THEN /\ thumbRetryById' = [thumbRetryById EXCEPT ![id] = attempt]
            /\ thumbTimers' = Append(thumbTimers,
                 [id |-> id, delay |-> ThumbRetryDelay(attempt), live |-> TRUE])
            /\ imgState' = [imgState EXCEPT ![id] = "blank"]
            /\ thumbHist' = [thumbHist EXCEPT ![id].consec = @ + 1,
                               ![id].delays = Append(@, ThumbRetryDelay(attempt))]
            /\ UNCHANGED <<thumbFailures, items>>
       ELSE /\ thumbFailures' = thumbFailures \cup {id}
            /\ thumbRetryById' = [thumbRetryById EXCEPT ![id] = 0]
            /\ items' = SetThumbFailed(id, TRUE)
            /\ imgState' = RenderImgs(SetThumbFailed(id, TRUE),
                                      [imgState EXCEPT ![id] = "blank"])
            /\ thumbHist' = [thumbHist EXCEPT ![id].consec = @ + 1]
            /\ UNCHANGED thumbTimers
  /\ UNCHANGED thumbFrame

\* a load handler that keeps the attempt counter
onThumbLoadKeepsCounter(id) ==
  /\ imgState[id] = "loading"
  /\ thumbFailures' = thumbFailures \ {id}
  /\ items' = IF id \in thumbFailures THEN SetThumbFailed(id, FALSE) ELSE items
  /\ imgState' = [imgState EXCEPT ![id] = "loaded"]
  /\ thumbHist' = [thumbHist EXCEPT ![id].consec = 0, ![id].delays = <<>>,
                                    ![id].retries = 0]
  /\ UNCHANGED <<thumbFrame, thumbTimers, thumbRetryById>>

\* onThumbLoad, called by the load event of the <img> of id
onThumbLoad(id) ==
  /\ imgState[id] = "loading"
  /\ thumbRetryById' = [thumbRetryById EXCEPT ![id] = 0]
  /\ thumbFailures' = thumbFailures \ {id}
  /\ items' = IF id \in thumbFailures THEN SetThumbFailed(id, FALSE) ELSE items
  /\ imgState' = [imgState EXCEPT ![id] = "loaded"]
  /\ thumbHist' = [thumbHist EXCEPT ![id].consec = 0, ![id].delays = <<>>,
                                    ![id].retries = 0]
  /\ UNCHANGED <<thumbFrame, thumbTimers>>

\* the retry timer t fires: the element that failed is given the thumbnail
\* URL again, which requests it
\* (timers are kept in the order they were set: one set earlier with a delay
\* that is not longer fires first); the callback returns at once when the
\* component is destroyed
ThumbRetryFires(k) ==
  LET t == thumbTimers[k] IN
  /\ \A j \in 1..(k - 1) : thumbTimers[j].delay > t.delay
  /\ thumbTimers' = RemoveAt(thumbTimers, k)
  /\ imgState' = IF t.live /\ ~destroyed
                   THEN [imgState EXCEPT ![t.id] = "loading"] ELSE imgState
  /\ thumbHist' = IF destroyed THEN thumbHist
                  ELSE [thumbHist EXCEPT ![t.id].retries = @ + 1,
                          ![t.id].late = @ \/ (t.id \in thumbFailures)]
  /\ UNCHANGED <<thumbFrame, thumbRetryById, thumbFailures, items>>

(***************************************************************************)
(* Polling                                                                 *)
(***************************************************************************)
\* a pending poll timeout fires: refresh({ silent: true }); _pollTimer keeps
\* the id of the timeout
PollFires ==
  /\ \E t \in pollsPending : pollsPending' = pollsPending \ {t}
  /\ RefreshCall(TRUE, page, activeTab)
  /\ UNCHANGED <<filterVars, activeTab, page, total, pollTimer, tagsBroken,
                 noticeMessage,
                 items, thumbVars, previewOpen, previewItem, tokenVars, elVars,
                 playerVars, previewReqs, likeReqs, serverVars, deleteVars, uploadVars, destroyed, likeHist>>

(***************************************************************************)
(* Initial states                                                          *)
(***************************************************************************)
NoThumbHist == [id \in Ids |-> [consec |-> 0, delays |-> <<>>, retries |-> 0, late |-> FALSE]]

\* the field initialisers of the class, for everything but the list
FieldDefaults ==
  /\ activeTab = "all"
  /\ errorMessage = NoMsg
  /\ noticeMessage = NoMsg
  /\ page = 1
  /\ mediaType = ""
  /\ tagsSelected = <<>>
  /\ gender = ""
  /\ status = ""
  /\ q = <<>>
  /\ pollTimer = 0
  /\ pollsPending = {}
  /\ deleteOpen = FALSE
  /\ deleteItem = Null
  /\ deleteBusy = FALSE
  /\ deleteReqs = <<>>
  /\ retryReqs = <<>>
  /\ uploadFile = Null
  /\ uploadTitle = <<>>
  /\ uploadGender = ""
  /\ uploadAuthorized = FALSE
  /\ uploadBusy = FALSE
  /\ uploadReqs = <<>>
  /\ destroyed = FALSE
  /\ tagsBroken = {}
  /\ thumbRetryById = [id \in Ids |-> 0]
  /\ thumbFailures = {}
  /\ thumbTimers = <<>>
  /\ thumbHist = NoThumbHist
  /\ previewOpen = FALSE
  /\ previewItem = Null
  /\ previewStreamUrl = Null
  /\ previewLoading = FALSE
  /\ previewStreamLoading = FALSE
  /\ previewRetryCount = 0
  /\ previewIsPlaying = FALSE
  /\ previewFullscreen = FALSE
  /\ mediaEl = FALSE
  /\ streamToken = 0
  /\ security = Null
  /\ hbTimer = FALSE
  /\ hls = FALSE
  /\ sourceAttached = FALSE
  /\ isHls = FALSE
  /\ sess = 0
  /\ elPaused = TRUE
  /\ elAtEnd = FALSE
  /\ elSrc = 0
  /\ elEvents = <<>>
  /\ conts = <<>>
  /\ likeReqs = <<>>
  /\ playReqs = <<>>
  /\ hbReqs = <<>>
  /\ revokeReqs = <<>>
  /\ tokenSeq = 0
  /\ playPressed = FALSE
  /\ endedToks = {}
  /\ errFetches = 0
  /\ sessOfToken = 0

DefaultPlayback == [security |-> PolicyOn, hls |-> TRUE]

\* the backend: which items the viewer likes, and the likes of others
ServerStates ==
  /\ srvLiked \in SUBSET Ids
  /\ srvOthers \in [Ids -> 0..MaxOthers]
  /\ srvItems = <<"v1", "a1", "i1">>
  /\ uploadTermsUrl = Null
  /\ srvStatus = [id \in Ids |-> Catalogue[id].status]


\* the state the constructor leaves: its refresh() is awaiting the listing
Init ==
  /\ FieldDefaults
  /\ ServerStates
  /\ hlsMode \in {"native", "hlsjs-unloaded"}
  /\ elDropsOnLoad \in BOOLEAN
  /\ playerErrorsLeft = MaxPlayerErrors
  /\ srvPlayback \in {[security |-> pol, hls |-> h] : pol \in {PolicyOn, PolicyOff},
                                                       h \in BOOLEAN}
  /\ loading = TRUE
  /\ items = <<>>
  /\ total = 0
  /\ imgState = [id \in Ids |-> "absent"]
  /\ listReqs = <<FirstListReq(FALSE, 1, "all")>>
  /\ likeHist = HistLoaded(<<>>)

\* the list the constructor's refresh() shows for the page pageIds
LoadedItems(pageIds) ==
  [k \in 1..Len(pageIds) |-> DecorateItem(ServerItemRaw(pageIds[k]))]

\* the state once the constructor's refresh() has shown the page pageIds and
\* its thumbnails have loaded
Loaded(pageIds) ==
  /\ FieldDefaults
  /\ loading = FALSE
  /\ items = LoadedItems(pageIds)
  /\ total = Len(pageIds)
  /\ imgState = [id \in Ids |-> IF IndexOf(LoadedItems(pageIds), id) = 0
                                  THEN "absent" ELSE "loaded"]
  /\ listReqs = <<>>
  /\ likeHist = HistLoaded(LoadedItems(pageIds))

(***************************************************************************)
(* Like / unlike, every call answered with success                         *)
(***************************************************************************)
AllIds == <<"v1", "a1", "i1">>

InitLikeSeq ==
  /\ ServerStates
  /\ srvPlayback = DefaultPlayback
  /\ hlsMode = "native"
  /\ elDropsOnLoad = FALSE
  /\ playerErrorsLeft = MaxPlayerErrors
  /\ Loaded(AllIds)

NextLikeSeq ==
  \/ ToggleLike
  \/ \E k \in 1..Len(likeReqs) : LikeSucceed(k)

SpecLikeSeq == InitLikeSeq /\ [][NextLikeSeq]_vars

FlipN(b, n) == IF n % 2 = 0 THEN b ELSE ~b

InitLike ==
  /\ srvLiked \in {{}, {"a1"}}
  /\ srvOthers = [id \in Ids |-> MaxOthers]
  /\ srvItems = <<"v1", "a1", "i1">>
  /\ uploadTermsUrl = Null
  /\ srvStatus = [id \in Ids |-> Catalogue[id].status]
  /\ srvPlayback = DefaultPlayback
  /\ hlsMode = "native"
  /\ elDropsOnLoad = FALSE
  /\ playerErrorsLeft = MaxPlayerErrors
  /\ Loaded(AllIds)

ListAnswered ==
  \E k \in 1..Len(listReqs) :
    \/ ListServerAnswer(k)
    \/ ListServerFail(k)
    \/ RefreshApply(k)
    \/ RefreshFail(k)

NextLike ==
  \/ ToggleLike
  \/ \E k \in 1..Len(likeReqs) : LikeSucceed(k)
  \/ \E k \in 1..Len(likeReqs) : LikeFail(k)
  \/ applyFilters
  \/ ListAnswered

SpecLike == InitLike /\ [][NextLike]_vars

\* C2: when a like/unlike request fails, handling the failure leaves the
\* item's entry with exactly the liked flag and likes_count it had just
\* before the optimistic update, with its pending flag cleared, and sets
\* errorMessage.
C2_RollbackExact ==
  [][\A k \in 1..Len(likeReqs) :
       LikeFail(k) =>
         /\ errorMessage' # NoMsg
         /\ LET r == likeReqs[k]
                j == IndexOf(items', r.id)
            IN j # 0 =>
                 /\ items'[j].liked = r.before.liked
                 /\ items'[j].likes_count = r.before.likes_count
                 /\ ~items'[j]._likePending]_vars

\* a failed unlike of an item with two likes has been rolled back
C2_Witness ==
  /\ errorMessage = "Error"
  /\ likeReqs = <<>>
  /\ \E k \in 1..Len(items) :
       /\ items[k].liked /\ items[k].likes_count = 2
       /\ ~items[k]._likePending
       /\ likeHist[items[k].public_id].unlikes = 1

\* C3: at most one like/unlike request is outstanding for any one public_id.
C3_OneOutstanding ==
  \A id \in Ids : Cardinality({k \in 1..Len(likeReqs) : likeReqs[k].id = id}) <= 1

(***************************************************************************)
(* Thumbnails across list refreshes                                        *)
(***************************************************************************)
InitThumb ==
  /\ srvLiked = {}
  /\ srvOthers = [id \in Ids |-> 0]
  /\ srvItems = <<"v1", "a1", "i1">>
  /\ uploadTermsUrl = Null
  /\ srvStatus = [id \in Ids |-> Catalogue[id].status]
  /\ srvPlayback = DefaultPlayback
  /\ hlsMode = "native"
  /\ elDropsOnLoad = FALSE
  /\ playerErrorsLeft = MaxPlayerErrors
  /\ FieldDefaults
  /\ loading = TRUE
  /\ items = <<>>
  /\ total = 0
  /\ imgState = [id \in Ids |-> "absent"]
  /\ listReqs = <<FirstListReq(FALSE, 1, "all")>>
  /\ likeHist = HistLoaded(<<>>)

NextThumb ==
  \/ applyFilters
  \/ \E k \in 1..Len(listReqs) : ListServerAnswer(k)
  \/ \E k \in 1..Len(listReqs) : RefreshApply(k)
  \/ \E id \in Ids : onThumbError(id)
  \/ \E id \in Ids : onThumbLoad(id)
  \/ \E k \in 1..Len(thumbTimers) : ThumbRetryFires(k)

SpecThumb == InitThumb /\ [][NextThumb]_vars

ThumbDelays == <<500, 1000, 2000>>

\* C4 (first part): after n failures in a row of the thumbnail of an id,
\* n <= 3, exactly n retries have been scheduled, with delays 500, 1000 and
\* 2000 ms in this order; the fourth failure schedules none and marks the id
\* permanently failed.
C4_RetrySchedule ==
  \A id \in Ids :
    LET h == thumbHist[id] IN
    /\ h.consec <= 3 => h.delays = SubSeq(ThumbDelays, 1, h.consec)
    /\ h.consec = 4 => h.delays = ThumbDelays /\ id \in thumbFailures

\* four failures in a row, three retries made, the id is marked failed
C4_Witness ==
  \E id \in Ids :
    /\ thumbHist[id].consec = 4
    /\ thumbHist[id].retries = 3
    /\ id \in thumbFailures
    /\ IndexOf(items, id) # 0

\* C4 (second part): no retry request is issued for an id once it is marked
\* permanently failed.
C4_NoRetryOnceFailed ==
  \A id \in Ids : ~thumbHist[id].late

(***************************************************************************)
(* Listing with tag filters                                                *)
(***************************************************************************)
InitList ==
  /\ srvLiked = {}
  /\ srvOthers = [id \in Ids |-> 0]
  /\ srvItems = <<"v1", "a1", "i1">>
  /\ uploadTermsUrl = Null
  /\ srvStatus = [id \in Ids |-> Catalogue[id].status]
  /\ srvPlayback = DefaultPlayback
  /\ hlsMode = "native"
  /\ elDropsOnLoad = FALSE
  /\ playerErrorsLeft = MaxPlayerErrors
  /\ FieldDefaults
  /\ loading = TRUE
  /\ items = <<>>
  /\ total = 0
  /\ imgState = [id \in Ids |-> "absent"]
  /\ listReqs = <<FirstListReq(FALSE, 1, "all")>>
  /\ likeHist = HistLoaded(<<>>)

NextList ==
  \/ \E tab \in {"all", "mine"} : switchTab(tab)
  \/ applyFilters
  \/ \E tag \in FilterTags : addFilterTag(tag)
  \/ \E tag \in FilterTags : removeFilterTag(tag)
  \/ \E k \in 1..Len(listReqs) : ListServerAnswer(k)
  \/ \E k \in 1..Len(listReqs) : ListServerFail(k)
  \/ \E k \in 1..Len(listReqs) : RefreshApply(k)
  \/ \E k \in 1..Len(listReqs) : RefreshTagFallback(k)
  \/ \E k \in 1..Len(listReqs) : RefreshFail(k)

SpecList == InitList /\ [][NextList]_vars

\* the client handles the answer to the listing request k
ListHandled(k) == RefreshApply(k) \/ RefreshTagFallback(k) \/ RefreshFail(k)

\* the item carries the tag (compared trimmed, without regard to case)
Carries(item, tag) ==
  \E j \in 1..Len(item.tags) : Lower(Trim(item.tags[j])) = Lower(Trim(tag))

\* C5: a refresh whose tag-carrying request is answered with 500 issues
\* exactly one further request, to the same endpoint and without tags, and
\* sets the notice; when that request is answered the list shown holds only
\* items that carry every selected tag; a tag-carrying request that fails
\* with another status sets the error and issues no further request; no
\* refresh ever issues more than two requests.
C5_TagFallback ==
  [][\A k \in 1..Len(listReqs) :
       LET r == listReqs[k] IN
       /\ (ListHandled(k) /\ ~r.resp.ok /\ r.tagged /\ r.resp.status = 500) =>
             /\ Len(listReqs') = Len(listReqs)
             /\ LET n == listReqs'[Len(listReqs')] IN
                /\ ~n.tagged /\ n.endpoint = r.endpoint /\ n.page = r.page
                /\ n.resp = Null /\ n.sent = 2
             /\ noticeMessage' # NoMsg
             /\ errorMessage' = errorMessage
       /\ (ListHandled(k) /\ ~r.resp.ok /\ r.tagged /\ r.resp.status # 500) =>
             /\ listReqs' = RemoveAt(listReqs, k)
             /\ errorMessage' # NoMsg
       /\ (ListHandled(k) /\ r.resp.ok /\ r.sent = 2) =>
             /\ listReqs' = RemoveAt(listReqs, k)
             /\ \A j \in 1..Len(items') :
                  \A x \in 1..Len(tagsSelected) : Carries(items'[j], tagsSelected[x])
             /\ \A j \in 1..Len(items') :
                  \E y \in 1..Len(r.resp.media_items) :
                     r.resp.media_items[y].public_id = items'[j].public_id
       /\ r.sent <= 2]_vars

\* the list shown after a fallback: the returned page held three items, the
\* one shown carries the selected tags, and the notice is up
C5_Witness ==
  /\ listReqs = <<>>
  /\ noticeMessage # NoMsg
  /\ "/media" \in tagsBroken
  /\ activeTab = "all"
  /\ Len(tagsSelected) = 2
  /\ Len(items) = 1
  /\ total = 3

(***************************************************************************)
(* Preview sessions                                                        *)
(***************************************************************************)
\* The environments a preview runs in: how the backend serves playback, how
\* the browser plays adaptive streams, and whether it discards queued events
\* on load.
PreviewEnvs ==
  { [playback |-> [security |-> PolicyOn, hls |-> TRUE],
     hlsMode |-> "hlsjs-unloaded", drops |-> TRUE],
    [playback |-> [security |-> PolicyOn, hls |-> TRUE],
     hlsMode |-> "native", drops |-> FALSE],
    [playback |-> [security |-> PolicyOn, hls |-> FALSE],
     hlsMode |-> "native", drops |-> TRUE],
    [playback |-> [security |-> PolicyOff, hls |-> FALSE],
     hlsMode |-> "native", drops |-> FALSE] }

InitPreview ==
  /\ srvLiked = {}
  /\ srvOthers = [id \in Ids |-> 0]
  /\ srvItems = <<"v1", "a1", "i1">>
  /\ uploadTermsUrl = Null
  /\ srvStatus = [id \in Ids |-> Catalogue[id].status]
  /\ \E env \in PreviewEnvs :
       /\ srvPlayback = env.playback
       /\ hlsMode = env.hlsMode
       /\ elDropsOnLoad = env.drops
  /\ playerErrorsLeft = MaxPlayerErrors
  /\ Loaded(AllIds)

NextPreview ==
  \/ \E k \in 1..Len(items) : openPreview(items[k])
  \/ closePreview
  \/ registerPreviewMedia
  \/ togglePreviewFullscreen
  \/ togglePreviewPlayback
  \/ \E k \in 1..Len(conts) : ResumeCont(k)
  \/ DispatchMediaEvent
  \/ MediaEnds
  \/ seekPreviewToEnd
  \/ HeartbeatTick
  \/ \E k \in 1..Len(hbReqs) : HeartbeatAnswered(k)
  \/ \E k \in 1..Len(hbReqs) : Heartbeat429(k)
  \/ \E k \in 1..Len(revokeReqs) : RevokeAnswered(k)
  \/ onPlayerError
  \/ \E k \in 1..Len(playReqs) : PlayAnswered(k)
  \/ \E k \in 1..Len(playReqs) : PlayFailed(k)

SpecPreview == InitPreview /\ [][NextPreview]_vars

IsAv(item) == item # Null /\ MediaTypeOf(item) \in {"video", "audio"}

Range(sq) == {sq[k] : k \in 1..Len(sq)}

\* C6: opening a preview of a video or audio item issues no GET
\* /media/:id/play; a request for such an item that is not issued by
\* togglePreviewPlayback is issued only after play was triggered in the
\* session; closing a preview of such an item in which play was never
\* triggered issues no revoke request.
C6_TokenOnlyOnPlay ==
  [][/\ (sess' # sess /\ IsAv(previewItem')) => playReqs' = playReqs
     /\ (/\ Len(playReqs') > Len(playReqs)
         /\ playReqs'[Len(playReqs')].mt \in {"video", "audio"}) =>
           \/ playReqs'[Len(playReqs')].by = "play"
           \/ playPressed
     /\ (previewOpen /\ ~previewOpen' /\ IsAv(previewItem) /\ ~playPressed) =>
           Len(revokeReqs') <= Len(revokeReqs)]_vars

\* the answer to heartbeat k completes the 429 branch in this step (at once
\* when no revoke is awaited, otherwise when the revoke is answered)
Hb429Completes ==
  \/ \E k \in 1..Len(hbReqs) : Heartbeat429(k) /\ ~RevokeIssues(Cur)
  \/ \E k \in 1..Len(revokeReqs) : RevokeAnswered(k) /\ revokeReqs[k].cont = "hb429"

\* C7: when the 429 branch of a heartbeat completes while playing, playback
\* is stopped (previewIsPlaying false; the heartbeat timer is stopped, or the
\* pause event that stops it is queued), the source and the adaptive
\* streaming handle are detached, stream URL and token are null, the notice
\* is set, and the modal is open on the same item as before.
C7_Heartbeat429 ==
  [][(Hb429Completes /\ previewIsPlaying) =>
       /\ ~previewIsPlaying'
       /\ (hbTimer' => "pause" \in Range(elEvents'))
       /\ ~sourceAttached' /\ ~hls' /\ elSrc' = 0
       /\ previewStreamUrl' = Null /\ streamToken' = 0
       /\ noticeMessage' # NoMsg
       /\ previewOpen' = previewOpen /\ previewItem' = previewItem]_vars

\* C8: a grant that answers a GET /media/:id/play issued by another preview
\* session than the current one, or that arrives when the preview is closed,
\* leaves stream URL, token and security flags unchanged.
C8_StaleGrantDiscarded ==
  [][\A k \in 1..Len(playReqs) :
       (/\ tokenSeq' # tokenSeq
        /\ playReqs' = RemoveAt(playReqs, k)
        /\ (~previewOpen \/ playReqs[k].sess # sess)) =>
          UNCHANGED <<previewStreamUrl, streamToken, security>>]_vars

\* C9: openPreview leaves no heartbeat timer, token or adaptive-streaming
\* handle of the previous session, and revokes the token that session held.
C9_OpenTearsDown ==
  [][sess' # sess =>
       /\ ~hbTimer'
       /\ streamToken' = 0
       /\ ~hls'
       /\ (streamToken # 0 /\ security # Null /\ security.revoke_enabled) =>
            \E r \in Range(revokeReqs') : r.token = streamToken]_vars

\* C10: closePreview, in any state, stops the heartbeat timer, issues a
\* revoke request for the held token when the policy enables revocation,
\* destroys the adaptive streaming handle, and leaves every preview field at
\* its Closed default.
C10_CloseResets ==
  [][closePreview =>
       /\ ~hbTimer' /\ ~previewOpen'
       /\ (streamToken # 0 /\ security # Null /\ security.revoke_enabled) =>
            /\ Len(revokeReqs') = Len(revokeReqs) + 1
            /\ revokeReqs'[Len(revokeReqs')].token = streamToken
       /\ ~(streamToken # 0 /\ security # Null /\ security.revoke_enabled) =>
            Len(revokeReqs') = Len(revokeReqs)
       /\ ~hls' /\ ~sourceAttached' /\ ~isHls'
       /\ previewItem' = Null /\ previewStreamUrl' = Null
       /\ streamToken' = 0 /\ security' = Null
       /\ ~previewIsPlaying' /\ ~previewStreamLoading' /\ ~previewLoading'
       /\ previewRetryCount' = 0 /\ ~previewFullscreen' /\ ~mediaEl']_vars

\* a preview closed while it was playing an adaptive stream under a policy
\* with heartbeat and revocation: the revoke issued by closePreview is
\* outstanding, as is the last heartbeat
C10_Witness ==
  /\ ~previewOpen /\ ~hbTimer /\ ~hls /\ streamToken = 0
  /\ hlsMode = "hlsjs"
  /\ Len(revokeReqs) = 1 /\ revokeReqs[1].cont = "close"
  /\ Len(hbReqs) = 1 /\ hbReqs[1].token = revokeReqs[1].token


\* the "ended" event at the head of the queue is dispatched: onPreviewEnded
EndedDispatched ==
  /\ Len(elEvents) > 0
  /\ Head(elEvents) = "ended"
  /\ DispatchMediaEvent

InitRetry ==
  /\ srvLiked = {}
  /\ srvOthers = [id \in Ids |-> 0]
  /\ srvItems = <<"v1", "a1", "i1">>
  /\ uploadTermsUrl = Null
  /\ srvStatus = [id \in Ids |-> Catalogue[id].status]
  /\ srvPlayback = [security |-> PolicyOff, hls |-> FALSE]
  /\ hlsMode = "native"
  /\ elDropsOnLoad = FALSE
  /\ playerErrorsLeft = MaxRetryErrors
  /\ Loaded(<<"v1">>)

NextRetry ==
  \/ \E k \in 1..Len(items) : openPreview(items[k])
  \/ closePreview
  \/ registerPreviewMedia
  \/ togglePreviewPlayback
  \/ DispatchMediaEvent
  \/ MediaEnds
  \/ onPlayerError
  \/ \E k \in 1..Len(playReqs) : PlayAnswered(k)
  \/ \E k \in 1..Len(playReqs) : PlayFailed(k)
  \/ applyFilters
  \/ \E k \in 1..Len(listReqs) : ListServerFail(k)
  \/ \E k \in 1..Len(listReqs) : RefreshFail(k)

SpecRetry == InitRetry /\ [][NextRetry]_vars

\* C12: within one preview session (from openPreview until closePreview or
\* the next openPreview) onPlayerError issues at most 3 GET /media/:id/play
\* requests in total, whatever errors, pauses, natural ends and replays
\* occur in it; and it issues none while previewStreamUrl is null.
C12_ErrorRetriesPerSession ==
  [][/\ errFetches' <= 3
     /\ (onPlayerError /\ previewStreamUrl = Null) => playReqs' = playReqs]_vars


NextPoll ==
  \/ \E tab \in {"all", "mine"} : switchTab(tab)
  \/ applyFilters
  \/ PollFires
  \/ \E k \in 1..Len(listReqs) : ListServerAnswer(k)
  \/ \E k \in 1..Len(listReqs) : ListServerFail(k)
  \/ \E k \in 1..Len(listReqs) : RefreshApply(k)
  \/ \E k \in 1..Len(listReqs) : RefreshFail(k)

SpecPoll == InitList /\ [][NextPoll]_vars

\* an item of the list is queued or processing
ShowsInFlight(its) == \E k \in 1..Len(its) : its[k].status \in {"queued", "processing"}

\* C14: after every successful refresh exactly one poll timer, due after
\* 4000 ms, is pending if the active tab is "mine" and a displayed item is
\* queued or processing, and none is pending otherwise; in every reachable
\* state at most one poll timer is pending.
C14_OnePollTimer ==
  [][/\ \A k \in 1..Len(listReqs) : RefreshApply(k) =>
          IF activeTab' = "mine" /\ ShowsInFlight(items')
            THEN /\ Cardinality(pollsPending') = 1
                 /\ \A t \in pollsPending' : t.delay = 4000 /\ t.id = pollTimer'
            ELSE pollsPending' = {}
     /\ Cardinality(pollsPending') <= 1]_vars

\* a refresh on "mine" that replaced a pending poll timer by a new one, and
\* a later refresh that showed nothing in flight and left none
C14_Witness ==
  /\ activeTab = "mine"
  /\ ShowsInFlight(items)
  /\ Cardinality(pollsPending) = 1
  /\ listReqs = <<>>
  /\ ~loading


\* C15: a poll timer that was pending when an explicit (non-silent) refresh
\* started never fires; hence the silent refresh it would issue is never in
\* flight together with the explicit refresh that superseded it.
C15_ExplicitRefreshCancelsPoll ==
  [][\A t \in pollsPending :
       (PollFires /\ t \notin pollsPending') => ~t.superseded]_vars


\* C16: no polling on the "all" tab: while the active tab is "all" no poll
\* timer fires and no silent refresh is issued, whatever tab switches,
\* refresh successes and refresh failures preceded.
C16_NoPollingOnAll ==
  [][/\ (PollFires /\ pollsPending' # pollsPending) => activeTab # "all"
     /\ (/\ Len(listReqs') > Len(listReqs)
         /\ listReqs'[Len(listReqs')].silent) => activeTab # "all"]_vars


(***************************************************************************)
(* Searching with filters                                                  *)
(***************************************************************************)
NextFilter ==
  \/ \E tab \in {"all", "mine"} : switchTab(tab)
  \/ applyFilters
  \/ clearFilters
  \/ \E v \in QueryTexts : setQ(v)
  \/ \E v \in MediaTypeValues : setMediaType(v)
  \/ \E v \in GenderValues : setGender(v)
  \/ \E v \in StatusValues : setStatus(v)
  \/ addFilterTag("Demo")
  \/ \E k \in 1..Len(listReqs) : ListServerAnswer(k)
  \/ \E k \in 1..Len(listReqs) : RefreshApply(k)

SpecFilter == InitList /\ [][NextFilter]_vars

\* the text contains the query, without regard to case
ContainsText(text, query) ==
  \E i \in 1..(Len(text) + 1) :
    /\ i + Len(query) - 1 <= Len(text)
    /\ \A j \in 1..Len(query) : LowerCh(text[i + j - 1]) = LowerCh(query[j])

\* C17: after any successful refresh every displayed item satisfies all the
\* filters active at that time: its media type is the media-type filter when
\* one is set, its subject is the subject filter when one is set, its status
\* is the status filter when one is set on the "mine" tab, it carries every
\* selected tag (without regard to case), and its title or description
\* contains the text query (trimmed, without regard to case) when one is set.
C17_DisplayedItemsPassFilters ==
  [][\A k \in 1..Len(listReqs) : RefreshApply(k) =>
       \A n \in 1..Len(items') :
         LET item == items'[n] IN
         /\ mediaType' # "" => item.media_type = mediaType'
         /\ gender' # "" => item.gender = gender'
         /\ (activeTab' = "mine" /\ status' # "") => item.status = status'
         /\ \A t \in 1..Len(tagsSelected') : Carries(item, tagsSelected'[t])
         /\ TrimText(q') # <<>> =>
              \/ ContainsText(item.title, TrimText(q'))
              \/ ContainsText(item.description, TrimText(q'))]_vars

\* a search on "mine" with subject, status and text filters set showed the
\* one item of a larger page that passes them all
C17_Witness ==
  /\ activeTab = "mine" /\ listReqs = <<>>
  /\ gender = "m" /\ status = "ready" /\ TrimText(q) # <<>>
  /\ total = 3 /\ Len(items) = 1


(***************************************************************************)
(* Paging, delete and retry                                                *)
(***************************************************************************)
\* totalPages / hasPrev / hasNext
totalPages == Max(1, (total + PerPage - 1) \div PerPage)
hasPrev == page > 1
hasNext == page < totalPages

goPrev ==
  /\ hasPrev
  /\ noticeMessage' = NoMsg
  /\ page' = page - 1
  /\ RefreshCall(FALSE, page - 1, activeTab)
  /\ UNCHANGED <<filterVars, activeTab, navFrame>>

goNext ==
  /\ hasNext
  /\ noticeMessage' = NoMsg
  /\ page' = page + 1
  /\ RefreshCall(FALSE, page + 1, activeTab)
  /\ UNCHANGED <<filterVars, activeTab, navFrame>>

\* The backend's listing: the page asked for, or the last page when the
\* backend clamps a page number beyond it; a page beyond the last is empty.
PageIds(pg) ==
  [j \in 1..Max(0, (IF pg * PerPage <= Len(srvItems) THEN PerPage
                    ELSE Len(srvItems) - (pg - 1) * PerPage)) |->
     srvItems[(pg - 1) * PerPage + j]]

LastPage == Max(1, (Len(srvItems) + PerPage - 1) \div PerPage)

ListServerPage(k) ==
  /\ listReqs[k].resp = Null
  /\ \E pg \in {listReqs[k].page, IF listReqs[k].page > LastPage
                                    THEN LastPage ELSE listReqs[k].page} :
        listReqs' = [listReqs EXCEPT ![k].resp =
                       [ ok |-> TRUE, status |-> 200,
                         media_items |-> [j \in 1..Len(PageIds(pg)) |->
                                            ServerItemRaw(PageIds(pg)[j])],
                         total |-> Len(srvItems), page |-> pg ]]
  /\ UNCHANGED <<filterVars, listVars, msgVars, items, thumbVars, previewOpen,
                 previewItem, tokenVars, elVars, playerVars, previewReqs,
                 likeReqs, serverVars, deleteVars, uploadVars, destroyed, likeHist>>

deleteFrame == <<filterVars, activeTab, page, total, pollTimer, tagsBroken,
                 items, thumbVars, likeReqs, serverVars, uploadVars, destroyed,
                 likeHist>>

previewState == <<previewOpen, previewItem, tokenVars, elVars, playerVars,
                  previewReqs>>

\* openDeleteConfirm
openDeleteConfirm(item) ==
  /\ isMine
  /\ IF isProcessingStatus(item.status)
       THEN /\ noticeMessage' = "You can delete this item after processing is complete."
            /\ UNCHANGED <<errorMessage, deleteOpen, deleteItem, deleteBusy>>
       ELSE /\ errorMessage' = NoMsg
            /\ noticeMessage' = NoMsg
            /\ deleteOpen' = TRUE
            /\ deleteItem' = item
            /\ deleteBusy' = FALSE
  /\ UNCHANGED <<deleteFrame, previewState, loading, pollsPending, listReqs,
                 deleteReqs, retryReqs, srvItems, srvStatus>>

\* closeDeleteConfirm
closeDeleteConfirm ==
  /\ ~deleteBusy
  /\ deleteOpen
  /\ deleteOpen' = FALSE
  /\ deleteItem' = Null
  /\ deleteBusy' = FALSE
  /\ UNCHANGED <<deleteFrame, previewState, msgVars, loading, pollsPending,
                 listReqs, deleteReqs, retryReqs, srvItems, srvStatus>>

\* confirmDelete up to its await
confirmDelete ==
  /\ deleteItem # Null
  /\ Len(deleteReqs) < MaxDeleteReqs
  /\ deleteBusy' = TRUE
  /\ errorMessage' = NoMsg
  /\ noticeMessage' = NoMsg
  /\ deleteReqs' = Append(deleteReqs, [id |-> deleteItem.public_id])
  /\ UNCHANGED <<deleteFrame, previewState, loading, pollsPending, listReqs,
                 deleteOpen, deleteItem, retryReqs, srvItems, srvStatus>>

\* the refresh() that confirmDelete awaits
RefreshCallBy(cont, pg, tab) ==
  /\ LET explicit(r) == ~r.silent IN
     Len(SelectSeq(listReqs, explicit)) < MaxListReqs
  /\ loading' = TRUE
  /\ listReqs' = Append(listReqs, [FirstListReq(FALSE, pg, tab) EXCEPT !.cont = cont])
  /\ pollsPending' = Superseded(pollsPending)

\* DELETE /media/:id succeeded: the rest of confirmDelete's try block up to
\* its await of refresh()
DeleteSucceeded(k) ==
  LET r == deleteReqs[k] IN
  /\ srvItems' = SelectSeq(srvItems, LAMBDA id : id # r.id)
  /\ deleteReqs' = RemoveAt(deleteReqs, k)
  /\ IF previewOpen /\ deleteItem = Null
       THEN \* reading this.deleteItem.public_id throws: the catch block
            /\ deleteBusy' = FALSE
            /\ errorMessage' = "Error"
            /\ UNCHANGED <<noticeMessage, previewState, loading, pollsPending,
                           listReqs, deleteOpen, deleteItem>>
       ELSE /\ LET P0 == IF /\ previewOpen /\ previewItem # Null
                            /\ previewItem.public_id = deleteItem.public_id
                          THEN ClosePreview(Cur) ELSE Cur
               IN Leaves([P0 EXCEPT !.notice = "Media item deleted.",
                                    !.err = NoMsg])
            /\ UNCHANGED tokenSeq
            /\ deleteOpen' = FALSE
            /\ deleteItem' = Null
            /\ deleteBusy' = FALSE
            /\ RefreshCallBy("delete", page, activeTab)
  /\ UNCHANGED <<deleteFrame, retryReqs, srvStatus>>

\* DELETE /media/:id failed
DeleteFailed(k) ==
  /\ deleteReqs' = RemoveAt(deleteReqs, k)
  /\ deleteBusy' = FALSE
  /\ errorMessage' = "Delete failed."
  /\ UNCHANGED <<deleteFrame, previewState, noticeMessage, loading,
                 pollsPending, listReqs, deleteOpen, deleteItem, retryReqs,
                 srvItems, srvStatus>>

\* retryProcessing up to its await
retryProcessing(item) ==
  /\ Len(retryReqs) < MaxRetryReqs
  /\ retryReqs' = Append(retryReqs, [id |-> item.public_id])
  /\ UNCHANGED <<deleteFrame, previewState, msgVars, loading, pollsPending,
                 listReqs, deleteOpen, deleteItem, deleteBusy, deleteReqs,
                 srvItems, srvStatus>>

\* POST /media/:id/retry succeeded: the backend queued the item again
RetrySucceeded(k) ==
  /\ srvStatus' = [srvStatus EXCEPT ![retryReqs[k].id] = "queued"]
  /\ retryReqs' = RemoveAt(retryReqs, k)
  /\ noticeMessage' = "media_gallery.retry_queued"
  /\ errorMessage' = NoMsg
  /\ RefreshCallBy("none", page, activeTab)
  /\ UNCHANGED <<deleteFrame, previewState, deleteOpen, deleteItem, deleteBusy,
                 deleteReqs, srvItems>>

RetryFailed(k) ==
  /\ retryReqs' = RemoveAt(retryReqs, k)
  /\ errorMessage' = "Error"
  /\ UNCHANGED <<deleteFrame, previewState, noticeMessage, loading,
                 pollsPending, listReqs, deleteOpen, deleteItem, deleteBusy,
                 deleteReqs, srvItems, srvStatus>>

\* The user's three uploads, two to a page: page 1 holds one that is being
\* processed and one whose processing failed, page 2 a ready one.
InitDelete ==
  /\ srvLiked = {}
  /\ srvOthers = [id \in Ids |-> 0]
  /\ srvItems = <<"i1", "v1", "a1">>
  /\ uploadTermsUrl = Null
  /\ srvStatus = [id \in Ids |-> IF id = "v1" THEN "failed" ELSE Catalogue[id].status]
  /\ srvPlayback = DefaultPlayback
  /\ hlsMode = "native"
  /\ elDropsOnLoad = FALSE
  /\ playerErrorsLeft = MaxPlayerErrors
  /\ FieldDefaults
  /\ loading = TRUE
  /\ items = <<>>
  /\ total = 0
  /\ imgState = [id \in Ids |-> "absent"]
  /\ listReqs = <<FirstListReq(FALSE, 1, "all")>>
  /\ likeHist = HistLoaded(<<>>)

NextDelete ==
  \/ switchTab("mine")
  \/ goPrev
  \/ goNext
  \/ \E k \in 1..Len(listReqs) : ListServerPage(k)
  \/ \E k \in 1..Len(listReqs) : ListServerFail(k)
  \/ \E k \in 1..Len(listReqs) : RefreshApply(k)
  \/ \E k \in 1..Len(listReqs) : RefreshFail(k)
  \/ \E k \in 1..Len(items) : openDeleteConfirm(items[k])
  \/ closeDeleteConfirm
  \/ confirmDelete
  \/ \E k \in 1..Len(deleteReqs) : DeleteSucceeded(k)
  \/ \E k \in 1..Len(deleteReqs) : DeleteFailed(k)
  \/ \E k \in 1..Len(items) : items[k].status = "failed" /\ retryProcessing(items[k])
  \/ \E k \in 1..Len(retryReqs) : RetrySucceeded(k)
  \/ \E k \in 1..Len(retryReqs) : RetryFailed(k)

SpecDelete == InitDelete /\ [][NextDelete]_vars

\* The delete flow when every request succeeds. Responses arrive and the
\* continuations of the awaits run: the oldest listing request is eventually
\* answered and applied.
NextDeleteFlow ==
  \/ switchTab("mine")
  \/ goPrev
  \/ goNext
  \/ \E k \in 1..Len(listReqs) : ListServerPage(k)
  \/ \E k \in 1..Len(listReqs) : RefreshApply(k)
  \/ \E k \in 1..Len(items) : openDeleteConfirm(items[k])
  \/ closeDeleteConfirm
  \/ confirmDelete
  \/ \E k \in 1..Len(deleteReqs) : DeleteSucceeded(k)

SpecDeleteFlow ==
  /\ InitDelete
  /\ [][NextDeleteFlow]_vars
  /\ WF_vars(Len(listReqs) > 0 /\ ListServerPage(1))
  /\ WF_vars(Len(listReqs) > 0 /\ RefreshApply(1))

ShownIds == [k \in 1..Len(items) |-> items[k].public_id]

\* confirmDelete awaits a refresh of page pg
DeleteRefreshInFlight(pg) ==
  \E k \in 1..Len(listReqs) :
    /\ listReqs[k].cont = "delete"
    /\ listReqs[k].page = pg
    /\ ~listReqs[k].silent

\* C18: a successful delete sets the notice and refreshes the current page;
\* when that refresh displays an empty page with a page number above 1 the
\* page number goes down by one and the list is refreshed again, otherwise
\* the page number is the one the response names and no request follows; and
\* once the last item of page 2 of 2 is deleted the component reaches page 1
\* showing page 1's content.
C18_DeleteStepsBack ==
  /\ [][/\ \A k \in 1..Len(deleteReqs) :
             (DeleteSucceeded(k) /\ noticeMessage' = "Media item deleted.") =>
                /\ Len(listReqs') = Len(listReqs) + 1
                /\ listReqs'[Len(listReqs')].page = page
                /\ ~listReqs'[Len(listReqs')].silent
                /\ ~deleteOpen' /\ deleteItem' = Null /\ ~deleteBusy'
        /\ \A k \in 1..Len(listReqs) :
             (RefreshApply(k) /\ listReqs[k].cont = "delete") =>
                IF items' = <<>> /\ listReqs[k].resp.page > 1
                  THEN /\ page' = listReqs[k].resp.page - 1
                       /\ Len(listReqs') = Len(listReqs)
                       /\ listReqs'[Len(listReqs')].page = page'
                       /\ listReqs'[Len(listReqs')].resp = Null
                       /\ ~listReqs'[Len(listReqs')].silent
                  ELSE /\ page' = listReqs[k].resp.page
                       /\ listReqs' = RemoveAt(listReqs, k)]_vars
  /\ (DeleteRefreshInFlight(2) /\ Len(srvItems) = PerPage)
        ~> (page = 1 /\ ShownIds = srvItems)

\* the step back has just been made: page 2 came back empty, page 1 is asked
C18_Witness ==
  /\ page = 1
  /\ items = <<>>
  /\ total = 2
  /\ srvItems = <<"i1", "v1">>
  /\ noticeMessage = "Media item deleted."
  /\ Len(listReqs) = 1
  /\ listReqs[1].page = 1 /\ listReqs[1].resp = Null

\* C19: a DELETE request is issued only for the item held by an open
\* confirmation dialog, and never for an item the list shows as queued or
\* processing; openDeleteConfirm on a queued or processing item sets a notice
\* and leaves the dialog as it was.
C19_NoDeleteWhileProcessing ==
  [][/\ Len(deleteReqs') > Len(deleteReqs) =>
          LET id == deleteReqs'[Len(deleteReqs')].id IN
          /\ deleteOpen
          /\ deleteItem # Null
          /\ deleteItem.public_id = id
          /\ \A j \in 1..Len(items) :
               items[j].public_id = id => ~isProcessingStatus(items[j].status)
     /\ \A k \in 1..Len(items) :
          (openDeleteConfirm(items[k]) /\ isProcessingStatus(items[k].status)) =>
             /\ noticeMessage' # NoMsg
             /\ deleteOpen' = deleteOpen
             /\ deleteItem' = deleteItem]_vars

(***************************************************************************)
(* Upload                                                                  *)
(***************************************************************************)
\* a picked file, and none (the picker was cancelled)
UploadFiles == {Null, [name |-> "file1"]}
UploadTitles == { <<>>, <<" ">>, <<"T", " ">> }
TermsUrls == {Null, [href |-> "/tos"]}

\* what no step of the upload form touches
uploadFrame == <<filterVars, total, pollTimer, tagsBroken, items, thumbVars,
                 likeReqs, serverVars, deleteVars, likeHist, previewState,
                 uploadTermsUrl, destroyed>>

onPickFile(file) ==
  /\ uploadFile' = file
  /\ UNCHANGED <<uploadFrame, activeTab, page, msgVars, loading, pollsPending,
                 listReqs, uploadTitle, uploadGender, uploadAuthorized,
                 uploadBusy, uploadReqs>>

setUploadTitle(t) ==
  /\ uploadTitle' = t
  /\ UNCHANGED <<uploadFrame, activeTab, page, msgVars, loading, pollsPending,
                 listReqs, uploadFile, uploadGender, uploadAuthorized,
                 uploadBusy, uploadReqs>>

setUploadGender(g) ==
  /\ uploadGender' = g
  /\ UNCHANGED <<uploadFrame, activeTab, page, msgVars, loading, pollsPending,
                 listReqs, uploadFile, uploadTitle, uploadAuthorized,
                 uploadBusy, uploadReqs>>

setUploadAuthorized(checked) ==
  /\ uploadAuthorized' = checked
  /\ UNCHANGED <<uploadFrame, activeTab, page, msgVars, loading, pollsPending,
                 listReqs, uploadFile, uploadTitle, uploadGender,
                 uploadBusy, uploadReqs>>

\* a submitUpload that looks at the title before the file
UploadCheckTitleFirst ==
  IF TrimText(uploadTitle) = <<>> THEN "media_gallery.errors.missing_title"
  ELSE IF uploadFile = Null THEN "media_gallery.errors.missing_file"
  ELSE IF uploadGender = "" THEN "media_gallery.errors.missing_gender"
  ELSE IF ~uploadAuthorized
    THEN IF uploadTermsUrl # Null
           THEN "media_gallery.errors.missing_authorization_with_terms"
           ELSE "media_gallery.errors.missing_authorization"
  ELSE NoMsg

\* submitUpload's checks: the message of the first one that fails
UploadCheck ==
  IF uploadFile = Null THEN "media_gallery.errors.missing_file"
  ELSE IF TrimText(uploadTitle) = <<>> THEN "media_gallery.errors.missing_title"
  ELSE IF uploadGender = "" THEN "media_gallery.errors.missing_gender"
  ELSE IF ~uploadAuthorized
    THEN IF uploadTermsUrl # Null
           THEN "media_gallery.errors.missing_authorization_with_terms"
           ELSE "media_gallery.errors.missing_authorization"
  ELSE NoMsg

\* submitUpload up to its first await
submitUpload ==
  /\ noticeMessage' = NoMsg
  /\ errorMessage' = UploadCheck
  /\ IF UploadCheck # NoMsg
       THEN UNCHANGED <<uploadBusy, uploadReqs>>
       ELSE /\ Len(uploadReqs) < MaxUploadReqs
            /\ Len(srvItems) + Len(uploadReqs) < Cardinality(Ids)
            /\ uploadBusy' = TRUE
            /\ uploadReqs' = Append(uploadReqs, [stage |-> "upload",
                                                 payload |-> Null])
  /\ UNCHANGED <<uploadFrame, activeTab, page, loading, pollsPending, listReqs,
                 draftVars>>

\* a catch that shows the server's text whatever the status
UploadErrorServerText(st) == "Error"

\* submitUpload's catch and finally
UploadErrorMessage(st) ==
  IF st = 404 \/ st = 403 THEN "media_gallery.errors.upload_not_allowed"
  ELSE "Error"

UploadAbort(k, msg) ==
  /\ uploadReqs' = RemoveAt(uploadReqs, k)
  /\ errorMessage' = msg
  /\ uploadBusy' = FALSE
  /\ UNCHANGED <<uploadFrame, activeTab, page, noticeMessage, loading,
                 pollsPending, listReqs, draftVars>>

\* POST /uploads.json answered with an upload id: the payload is built from
\* the draft as it is now, and POST /media is issued
UploadStored(k) ==
  /\ uploadReqs[k].stage = "upload"
  /\ uploadReqs' = [uploadReqs EXCEPT ![k] =
                      [stage |-> "create",
                       payload |-> [title |-> TrimText(uploadTitle),
                                    gender |-> uploadGender,
                                    authorized |-> uploadAuthorized]]]
  /\ UNCHANGED <<uploadFrame, activeTab, page, msgVars, loading, pollsPending,
                 listReqs, draftVars, uploadBusy>>

\* POST /uploads.json answered without an id, or failed
UploadFailed(k) ==
  /\ uploadReqs[k].stage = "upload"
  /\ \/ UploadAbort(k, "media_gallery.errors.upload_failed")
     \/ \E st \in FailStatuses : UploadAbort(k, UploadErrorMessage(st))

\* a resetUploadForm that keeps the picked file
ResetKeepsFile ==
  [file |-> uploadFile, title |-> <<>>, gender |-> "", authorized |-> FALSE]

\* resetUploadForm: the draft it leaves
ResetUploadForm ==
  [file |-> Null, title |-> <<>>, gender |-> "", authorized |-> FALSE]

\* the id the backend gives the new item
NewItemId == CHOOSE id \in Ids : \A j \in 1..Len(srvItems) : srvItems[j] # id

\* POST /media succeeded: the backend lists the new item first, queued; the
\* rest of submitUpload's try block up to its await of refresh()
CreateSucceeded(k) ==
  /\ uploadReqs[k].stage = "create"
  /\ uploadReqs' = RemoveAt(uploadReqs, k)
  /\ srvItems' = <<NewItemId>> \o srvItems
  /\ srvStatus' = [srvStatus EXCEPT ![NewItemId] = "queued"]
  /\ noticeMessage' = "media_gallery.uploading_notice"
  /\ errorMessage' = NoMsg
  /\ uploadFile' = ResetUploadForm.file
  /\ uploadTitle' = ResetUploadForm.title
  /\ uploadGender' = ResetUploadForm.gender
  /\ uploadAuthorized' = ResetUploadForm.authorized
  /\ activeTab' = "mine"
  /\ page' = 1
  /\ LET explicit(r) == ~r.silent IN
     Len(SelectSeq(listReqs, explicit)) < MaxListReqs
  /\ loading' = TRUE
  /\ listReqs' = Append(listReqs,
       [FirstListReq(FALSE, 1, "mine") EXCEPT !.cont = "upload"])
  /\ pollsPending' = Superseded(pollsPending)
  /\ UNCHANGED <<filterVars, total, pollTimer, tagsBroken, items, thumbVars,
                 likeReqs, serverVars, likeHist, previewState, uploadTermsUrl, destroyed,
                 deleteOpen, deleteItem, deleteBusy, deleteReqs, retryReqs,
                 uploadBusy>>

\* POST /media failed
CreateFailed(k) ==
  /\ uploadReqs[k].stage = "create"
  /\ \E st \in FailStatuses : UploadAbort(k, UploadErrorMessage(st))

\* Two uploads exist; the terms URL setting is set or not.
InitUpload ==
  /\ srvLiked = {}
  /\ srvOthers = [id \in Ids |-> 0]
  /\ srvItems = <<"v1", "a1">>
  /\ srvStatus = [id \in Ids |-> Catalogue[id].status]
  /\ uploadTermsUrl \in TermsUrls
  /\ srvPlayback = DefaultPlayback
  /\ hlsMode = "native"
  /\ elDropsOnLoad = FALSE
  /\ playerErrorsLeft = MaxPlayerErrors
  /\ FieldDefaults
  /\ loading = TRUE
  /\ items = <<>>
  /\ total = 0
  /\ imgState = [id \in Ids |-> "absent"]
  /\ listReqs = <<FirstListReq(FALSE, 1, "all")>>
  /\ likeHist = HistLoaded(<<>>)

NextUpload ==
  \/ \E tab \in {"all", "mine"} : switchTab(tab)
  \/ goNext
  \/ \E file \in UploadFiles : onPickFile(file)
  \/ \E t \in UploadTitles : setUploadTitle(t)
  \/ \E g \in {"", "f"} : setUploadGender(g)
  \/ \E checked \in BOOLEAN : setUploadAuthorized(checked)
  \/ submitUpload
  \/ \E k \in 1..Len(uploadReqs) : UploadStored(k)
  \/ \E k \in 1..Len(uploadReqs) : UploadFailed(k)
  \/ \E k \in 1..Len(uploadReqs) : CreateSucceeded(k)
  \/ \E k \in 1..Len(uploadReqs) : CreateFailed(k)
  \/ \E k \in 1..Len(listReqs) : ListServerPage(k)
  \/ \E k \in 1..Len(listReqs) : RefreshApply(k)

SpecUpload == InitUpload /\ [][NextUpload]_vars

\* C20: submitUpload checks the file, the trimmed title, the subject and the
\* authorization box in this order; on the first failing check it sets that
\* check's error message, issues no request and leaves the draft, the active
\* tab, the page and the list unchanged.
C20_UploadValidation ==
  [][submitUpload =>
       LET noFile == uploadFile = Null
           noTitle == TrimText(uploadTitle) = <<>>
           noGender == uploadGender = ""
           noAuth == ~uploadAuthorized
       IN
       /\ noFile => errorMessage' = "media_gallery.errors.missing_file"
       /\ (~noFile /\ noTitle) =>
             errorMessage' = "media_gallery.errors.missing_title"
       /\ (~noFile /\ ~noTitle /\ noGender) =>
             errorMessage' = "media_gallery.errors.missing_gender"
       /\ (~noFile /\ ~noTitle /\ ~noGender /\ noAuth) =>
             errorMessage' \in {"media_gallery.errors.missing_authorization",
                                "media_gallery.errors.missing_authorization_with_terms"}
       /\ (noFile \/ noTitle \/ noGender \/ noAuth) =>
             /\ UNCHANGED <<uploadReqs, listReqs, likeReqs, playReqs, hbReqs,
                            revokeReqs, deleteReqs, retryReqs>>
             /\ UNCHANGED <<draftVars, activeTab, page, items, total>>
             /\ ~uploadBusy' \/ uploadBusy
       /\ ~(noFile \/ noTitle \/ noGender \/ noAuth) =>
             /\ errorMessage' = NoMsg
             /\ Len(uploadReqs') = Len(uploadReqs) + 1]_vars

\* the authorization check, the last one, has just failed on page 2 of the
\* all tab with everything else filled in
C20_Witness ==
  /\ errorMessage = "media_gallery.errors.missing_authorization"
  /\ noticeMessage = NoMsg
  /\ uploadFile = [name |-> "file1"]
  /\ uploadTitle = <<"T", " ">>
  /\ uploadGender = "f"
  /\ ~uploadAuthorized
  /\ uploadReqs = <<>>
  /\ ~uploadBusy
  /\ activeTab = "all"
  /\ page = 2
  /\ Len(items) = 1

\* C21: POST /media is issued only by the step that handles the identifier
\* returned by POST /uploads.json; the step that handles its success clears
\* the draft, makes "mine" the active tab, sets page 1 and issues a refresh
\* of page 1 of /media/my; and the step that ends that refresh evaluates
\* polling for the list then shown and sets uploadBusy to false.
C21_UploadSuccess ==
  [][/\ \A k \in 1..Len(uploadReqs') :
          (uploadReqs'[k].stage = "create" /\ uploadReqs' # uploadReqs) =>
             \/ /\ k <= Len(uploadReqs)
                /\ uploadReqs[k].stage = "upload"
                /\ UploadStored(k)
             \/ \E j \in 1..Len(uploadReqs) :
                  uploadReqs[j] = uploadReqs'[k] /\ uploadReqs[j].stage = "create"
     /\ \A k \in 1..Len(uploadReqs) :
          CreateSucceeded(k) =>
             /\ uploadFile' = Null /\ uploadTitle' = <<>>
             /\ uploadGender' = "" /\ ~uploadAuthorized'
             /\ activeTab' = "mine" /\ page' = 1
             /\ noticeMessage' = "media_gallery.uploading_notice"
             /\ Len(listReqs') = Len(listReqs) + 1
             /\ listReqs'[Len(listReqs')].endpoint = "/media/my"
             /\ listReqs'[Len(listReqs')].page = 1
             /\ ~listReqs'[Len(listReqs')].silent
     /\ \A k \in 1..Len(listReqs) :
          (RefreshApply(k) /\ listReqs[k].cont = "upload") =>
             /\ ~uploadBusy'
             /\ page' = 1
             /\ (pollTimer' # 0) <=> (activeTab = "mine" /\
                   \E j \in 1..Len(items') : isProcessingStatus(items'[j].status))
             /\ pollTimer' # 0 => \E t \in pollsPending' : t.id = pollTimer']_vars

\* the upload went through and its refresh has ended: the new item is listed
\* as queued on page 1 of the mine tab and a poll is scheduled
C21_Witness ==
  /\ noticeMessage = "media_gallery.uploading_notice"
  /\ activeTab = "mine" /\ page = 1
  /\ uploadFile = Null /\ uploadTitle = <<>> /\ uploadGender = ""
  /\ ~uploadAuthorized /\ ~uploadBusy
  /\ uploadReqs = <<>> /\ listReqs = <<>>
  /\ Len(srvItems) = 3
  /\ Len(items) = 2 /\ items[1].status = "queued"
  /\ pollTimer # 0

\* C22: the step that starts a tab, paging, delete or retry action leaves
\* both messages null, and no step leaves noticeMessage and errorMessage both
\* set.
C22_OneMessagePerAction ==
  [][/\ (\/ switchTab("mine") \/ goPrev \/ goNext \/ confirmDelete
         \/ \E k \in 1..Len(items) : retryProcessing(items[k])) =>
            (noticeMessage' = NoMsg /\ errorMessage' = NoMsg)
     /\ ~(noticeMessage' # NoMsg /\ errorMessage' # NoMsg)]_vars

(***************************************************************************)
(* Teardown                                                                *)
(***************************************************************************)
\* willDestroy: stopPolling() and the _destroyed flag; the listeners it
\* removes are not modelled
willDestroy ==
  LET T == StopPolling([timer |-> pollTimer, pending |-> pollsPending]) IN
  /\ ~destroyed
  /\ destroyed' = TRUE
  /\ pollTimer' = T.timer
  /\ pollsPending' = T.pending
  /\ UNCHANGED <<filterVars, activeTab, loading, page, total, tagsBroken,
                 msgVars, items, thumbVars, previewOpen, previewItem,
                 tokenVars, elVars, playerVars, previewReqs, likeReqs,
                 listReqs, serverVars, deleteVars, uploadVars, likeHist>>

\* The user's two uploads, one still processing and a video that is ready,
\* served under a policy with heartbeats. Once the component is destroyed
\* its elements are gone: only responses, timers and intervals still run.
InitTeardown ==
  /\ srvLiked = {}
  /\ srvOthers = [id \in Ids |-> 0]
  /\ srvItems = <<"i1", "v1">>
  /\ uploadTermsUrl = Null
  /\ srvStatus = [id \in Ids |-> Catalogue[id].status]
  /\ srvPlayback = [security |-> PolicyOn, hls |-> FALSE]
  /\ hlsMode = "native"
  /\ elDropsOnLoad = FALSE
  /\ playerErrorsLeft = MaxPlayerErrors
  /\ FieldDefaults
  /\ loading = TRUE
  /\ items = <<>>
  /\ total = 0
  /\ imgState = [id \in Ids |-> "absent"]
  /\ listReqs = <<FirstListReq(FALSE, 1, "all")>>
  /\ likeHist = HistLoaded(<<>>)

NextTeardown ==
  \/ willDestroy
  \/ ~destroyed /\ switchTab("mine")
  \/ ~destroyed /\ \E k \in 1..Len(items) : openPreview(items[k])
  \/ ~destroyed /\ closePreview
  \/ ~destroyed /\ registerPreviewMedia
  \/ ~destroyed /\ togglePreviewPlayback
  \/ ~destroyed /\ DispatchMediaEvent
  \/ ~destroyed /\ \E id \in Ids : onThumbError(id)
  \/ \E k \in 1..Len(thumbTimers) : ThumbRetryFires(k)
  \/ PollFires
  \/ \E k \in 1..Len(listReqs) : ListServerPage(k)
  \/ \E k \in 1..Len(listReqs) : RefreshApply(k)
  \/ HeartbeatTick
  \/ \E k \in 1..Len(hbReqs) : HeartbeatAnswered(k)
  \/ \E k \in 1..Len(revokeReqs) : RevokeAnswered(k)
  \/ \E k \in 1..Len(playReqs) : PlayAnswered(k)

SpecTeardown == InitTeardown /\ [][NextTeardown]_vars

\* C23: once the component is destroyed no poll timer and no heartbeat
\* interval fires a callback that issues a request, and a thumbnail retry
\* timer that fires changes neither the list nor an image; and closePreview
\* leaves no heartbeat interval active.
C23_NoTimersAfterTeardown ==
  [][/\ destroyed => ~PollFires
     /\ destroyed => ~HeartbeatTick
     /\ (destroyed /\ \E k \in 1..Len(thumbTimers) : ThumbRetryFires(k)) =>
           UNCHANGED <<items, imgState, thumbRetryById, thumbFailures>>
     /\ closePreview => ~hbTimer']_vars

\* C24: an endpoint is marked exactly when the client handles its 500 answer
\* to a request with tags, the mark is never removed, and every request
\* issued carries the tags exactly when tags are selected and its own
\* endpoint is not marked (the request that follows the 500 included).
C24_TagDowngradePerEndpoint ==
  [][/\ tagsBroken \subseteq tagsBroken'
     /\ \A k \in 1..Len(listReqs) :
          RefreshTagFallback(k) =>
             tagsBroken' = tagsBroken \cup {listReqs[k].endpoint}
     /\ (\A k \in 1..Len(listReqs) : ~RefreshTagFallback(k)) =>
          tagsBroken' = tagsBroken
     /\ (\/ Len(listReqs') > Len(listReqs)
         \/ \E k \in 1..Len(listReqs) : RefreshTagFallback(k)) =>
          LET n == listReqs'[Len(listReqs')] IN
          /\ n.resp = Null
          /\ n.tagged <=> (/\ Len(uniqStrings(tagsSelected')) > 0
                           /\ n.endpoint \notin tagsBroken')]_vars

\* /media is marked, and a request with tags is on its way to /media/my
C24_Witness ==
  /\ tagsBroken = {"/media"}
  /\ activeTab = "mine"
  /\ \E k \in 1..Len(listReqs) :
       listReqs[k].endpoint = "/media/my" /\ listReqs[k].tagged

\* C25: a heartbeat timer is active only while the preview is open, the
\* media is playing, a token is held and the policy enables heartbeats; a
\* heartbeat request is sent only with the preview open and a token held,
\* and it carries that token.
C25_HeartbeatOnlyWhenPlaying ==
  [][/\ hbTimer' => /\ previewOpen'
                    /\ previewIsPlaying'
                    /\ streamToken' # 0
                    /\ security' # Null /\ security'.heartbeat_enabled
     /\ Len(hbReqs') > Len(hbReqs) =>
          /\ previewOpen' /\ streamToken' # 0
          /\ hbReqs'[Len(hbReqs')].token = streamToken']_vars

(***************************************************************************)
(* Like / unlike as the only changes: toggles, confirmations, rollbacks    *)
(***************************************************************************)
NextLikeOnly ==
  \/ ToggleLike
  \/ \E k \in 1..Len(likeReqs) : LikeSucceed(k)
  \/ \E k \in 1..Len(likeReqs) : LikeFail(k)

SpecLikeOnly == InitLikeSeq /\ [][NextLikeOnly]_vars

Outstanding(id) == \E j \in 1..Len(likeReqs) : likeReqs[j].id = id

\* C26: with like/unlike calls and their answers as the only changes, every
\* row's likes_count is within 1 of the server's count in every state, a row
\* is pending exactly while its request is outstanding, and a row with no
\* request outstanding shows the server's liked flag and count.
C26_CountWithinOne ==
  \A k \in 1..Len(items) :
    LET it == items[k]
        id == it.public_id
    IN /\ it.likes_count - ServerCount(id) \in {-1, 0, 1}
       /\ it._likePending <=> Outstanding(id)
       /\ ~Outstanding(id) =>
            /\ it.liked = (id \in srvLiked)
            /\ it.likes_count = ServerCount(id)

\* a like was rolled back and a later one confirmed; while a second row is
\* one optimistic step ahead of the server
C26_Witness ==
  /\ errorMessage = "Error"
  /\ \E k \in 1..Len(items) :
       LET h == likeHist[items[k].public_id] IN
       /\ ~Outstanding(items[k].public_id)
       /\ h.likes = 2 /\ h.unlikes = 0
       /\ items[k].liked /\ ~h.liked0
  /\ \E k \in 1..Len(items) :
       /\ Outstanding(items[k].public_id)
       /\ items[k].likes_count # ServerCount(items[k].public_id)

(***************************************************************************)
(* The preview's item and the list entry                                   *)
(***************************************************************************)
InitSync ==
  /\ srvLiked \in {{}, {"v1"}}
  /\ srvOthers = [id \in Ids |-> MaxOthers]
  /\ srvItems = <<"v1", "i1">>
  /\ uploadTermsUrl = Null
  /\ srvStatus = [id \in Ids |-> Catalogue[id].status]
  /\ srvPlayback = DefaultPlayback
  /\ hlsMode = "native"
  /\ elDropsOnLoad = FALSE
  /\ playerErrorsLeft = MaxPlayerErrors
  /\ Loaded(<<"v1", "i1">>)

NextSync ==
  \/ \E k \in 1..Len(items) : openPreview(items[k])
  \/ closePreview
  \/ ToggleLike
  \/ \E k \in 1..Len(likeReqs) : LikeSucceed(k)
  \/ \E k \in 1..Len(likeReqs) : LikeFail(k)
  \/ applyFilters
  \/ \E k \in 1..Len(listReqs) : ListServerPage(k)
  \/ \E k \in 1..Len(listReqs) : RefreshApply(k)

SpecSync == InitSync /\ [][NextSync]_vars

\* C27: whenever the preview is open on an item whose public_id is in the
\* list, previewItem and that list entry have the same liked, likes_count
\* and _likePending.
C27_PreviewItemInSync ==
  (previewOpen /\ previewItem # Null /\ IndexOf(items, previewItem.public_id) # 0) =>
     LET it == items[IndexOf(items, previewItem.public_id)] IN
     /\ previewItem.liked = it.liked
     /\ previewItem.likes_count = it.likes_count
     /\ previewItem._likePending = it._likePending

\* C28: the one field that holds the adaptive-streaming handle is set only
\* while the preview is open with a stream URL: no handle made for the
\* stream of a preview since closed or reopened is alive.
C28_NoStaleHlsHandle ==
  hls => (previewOpen /\ previewStreamUrl # Null)

CreateStage(reqs) == SelectSeq(reqs, LAMBDA x : x.stage = "create")

\* C29: the step that handles an upload response without an identifier, or
\* a failure of POST /uploads.json or of POST /media, issues no registration
\* and no list request, sets errorMessage (the fixed message for 403 and 404,
\* the failure's text otherwise), leaves the draft, activeTab and page as
\* they were and sets uploadBusy to false.
C29_UploadFailure ==
  [][\A k \in 1..Len(uploadReqs) :
       /\ (UploadFailed(k) \/ CreateFailed(k)) =>
            /\ errorMessage' # NoMsg
            /\ UNCHANGED <<draftVars, activeTab, page, items, listReqs>>
            /\ ~uploadBusy'
       /\ UploadFailed(k) =>
            /\ CreateStage(uploadReqs') = CreateStage(uploadReqs)
            /\ Len(uploadReqs') = Len(uploadReqs) - 1
       /\ (uploadReqs[k].stage = "upload" /\
           UploadAbort(k, "media_gallery.errors.upload_failed")) =>
            errorMessage' = "media_gallery.errors.upload_failed"
       /\ \A st \in FailStatuses \cup {404} :
            UploadAbort(k, UploadErrorMessage(st)) =>
              errorMessage' = IF st \in {403, 404}
                                THEN "media_gallery.errors.upload_not_allowed"
                                ELSE "Error"]_vars

\* an upload started on the mine tab was refused with 403: the draft is
\* still filled in, the tab is still shown and the form is no longer busy
C29_Witness ==
  /\ errorMessage = "media_gallery.errors.upload_not_allowed"
  /\ ~uploadBusy /\ uploadReqs = <<>>
  /\ uploadFile # Null /\ Len(TrimText(uploadTitle)) > 0
  /\ uploadGender # "" /\ uploadAuthorized
  /\ activeTab = "mine" /\ page = 1

\* C30: while a DELETE request is in flight deleteBusy is true, and no
\* closeDeleteConfirm step dismisses the dialog.
C30_BusyWhileDeleting ==
  [][/\ Len(deleteReqs') > 0 => deleteBusy'
     /\ Len(deleteReqs) > 0 => ~closeDeleteConfirm]_vars

(***************************************************************************)
(* Delete with a preview open                                              *)
(***************************************************************************)
NextDeletePreview ==
  \/ switchTab("mine")
  \/ \E k \in 1..Len(listReqs) : ListServerPage(k)
  \/ \E k \in 1..Len(listReqs) : RefreshApply(k)
  \/ \E k \in 1..Len(items) : openPreview(items[k])
  \/ closePreview
  \/ \E k \in 1..Len(items) : openDeleteConfirm(items[k])
  \/ closeDeleteConfirm
  \/ confirmDelete
  \/ \E k \in 1..Len(deleteReqs) : DeleteSucceeded(k)
  \/ \E k \in 1..Len(deleteReqs) : DeleteFailed(k)

SpecDeletePreview == InitDelete /\ [][NextDeletePreview]_vars

\* C31: the step that handles a failed DELETE sets errorMessage and sets
\* deleteBusy to false, and leaves the dialog, its item, the list, the page
\* and the preview as they were; the step that handles a successful DELETE
\* of the item the open preview shows closes that preview.
C31_DeleteOutcome ==
  [][\A k \in 1..Len(deleteReqs) :
       /\ DeleteFailed(k) =>
            /\ errorMessage' # NoMsg
            /\ ~deleteBusy'
            /\ UNCHANGED <<deleteOpen, deleteItem, items, page, previewOpen,
                           previewItem>>
       /\ (/\ DeleteSucceeded(k)
           /\ previewOpen /\ previewItem # Null
           /\ previewItem.public_id = deleteReqs[k].id) =>
            ~previewOpen']_vars

(***************************************************************************)
(* Filters and paging together                                             *)
(***************************************************************************)
NextPaging ==
  \/ \E tab \in {"all", "mine"} : switchTab(tab)
  \/ applyFilters
  \/ clearFilters
  \/ \E v \in MediaTypeValues : setMediaType(v)
  \/ \E v \in GenderValues : setGender(v)
  \/ \E v \in StatusValues : setStatus(v)
  \/ addFilterTag("Demo")
  \/ removeFilterTag("demo")
  \/ goPrev
  \/ goNext
  \/ \E k \in 1..Len(listReqs) : ListServerPage(k)
  \/ \E k \in 1..Len(listReqs) : RefreshApply(k)

SpecPaging == InitDelete /\ [][NextPaging]_vars

\* C32: every step that changes a filter field or the active tab leaves
\* page at 1.
C32_FilterChangeResetsPage ==
  [][(filterVars' # filterVars \/ activeTab' # activeTab) => page' = 1]_vars

C34_RefreshKeepsPreviewSession ==
  [][\A k \in 1..Len(listReqs) :
       RefreshApply(k) => UNCHANGED <<streamToken, security, hbTimer>>]_vars

\* C35: under a policy that enables revocation, a step that clears or
\* replaces the held token has a revoke request carrying that token
\* outstanding before or after it.
C35_NoTokenDroppedUnrevoked ==
  [][(/\ streamToken # 0
      /\ security # Null /\ security.revoke_enabled
      /\ streamToken' # streamToken) =>
        \E r \in Range(revokeReqs) \cup Range(revokeReqs') :
           r.token = streamToken]_vars

\* C36: a response to a listing request issued for the other tab (a request
\* older than the last tab switch) is applied only while the request the tab
\* switch issued is still outstanding, so that the newer response is the
\* last one shown.
C36_LatestRefreshWins ==
  [][\A k \in 1..Len(listReqs) :
       (RefreshApply(k) /\ listReqs[k].endpoint # EndpointOf(activeTab)) =>
          \E j \in (k + 1)..Len(listReqs) :
             listReqs[j].endpoint = EndpointOf(activeTab)]_vars

\* C37: the handling of a 429 answer to a heartbeat that carried another
\* token than the one now held (the preview was closed, or a new token was
\* acquired meanwhile), and the handling of the answer to the revoke it
\* triggered, leave stream URL, token, source and playback as they are and
\* revoke nothing.
C37_Late429LeavesNewSession ==
  [][/\ \A k \in 1..Len(hbReqs) :
          (Heartbeat429(k) /\ hbReqs[k].token # streamToken) =>
             /\ UNCHANGED <<previewStreamUrl, streamToken, sourceAttached,
                            elSrc, elPaused, previewIsPlaying, hls>>
             /\ Len(revokeReqs') <= Len(revokeReqs)
     /\ \A k \in 1..Len(revokeReqs) :
          (/\ RevokeAnswered(k) /\ revokeReqs[k].cont = "hb429"
           /\ revokeReqs[k].token # streamToken) =>
             UNCHANGED <<previewStreamUrl, streamToken, sourceAttached,
                         elSrc, elPaused, previewIsPlaying, hls>>]_vars

(***************************************************************************)
(* Token acquisition by explicit play, with two GET /media/:id/play        *)
(* requests in flight at once: the handlers of the preview, within a wider *)
(* bound on the requests.                                                  *)
(***************************************************************************)
MaxAcquireReqs == 2   \* GET /media/:id/play requests in flight at once

FitsAcquire(P) ==
  /\ Len(P.hbReqs) <= MaxHbReqs
  /\ Len(P.revokeReqs) <= MaxRevokeReqs
  /\ Len(P.playReqs) <= MaxAcquireReqs
  /\ Len(P.conts) <= MaxConts
  /\ Len(P.elEvents) <= MaxEvents

LeavesAcquire(P) == FitsAcquire(P) /\ SetP(P)

AcquireOpen(item) ==
  /\ sess < MaxSessions
  /\ LeavesAcquire(OpenPreview(Cur, item))
  /\ UNCHANGED <<previewFrame, tokenSeq>>

AcquireClose ==
  /\ previewOpen
  /\ LeavesAcquire(ClosePreview(Cur))
  /\ UNCHANGED <<previewFrame, tokenSeq>>

AcquireRegister ==
  /\ previewOpen /\ ~mediaEl
  /\ MediaTypeOf(previewItem) \in {"video", "audio"}
  /\ LeavesAcquire([Cur EXCEPT !.mediaEl = TRUE])
  /\ UNCHANGED <<previewFrame, tokenSeq>>

AcquireToggle ==
  /\ mediaEl
  /\ LeavesAcquire(TogglePlayback(Cur))
  /\ UNCHANGED <<previewFrame, tokenSeq>>

AcquireAnswered(k) ==
  /\ tokenSeq < MaxTokens
  /\ LeavesAcquire(PlayGranted([Cur EXCEPT !.playReqs = RemoveAt(playReqs, k)],
                               playReqs[k], Grant(playReqs[k])))
  /\ tokenSeq' = tokenSeq + 1
  /\ UNCHANGED previewFrame

AcquireFailed(k) ==
  \E st \in {429, 403} :
    /\ LeavesAcquire(PlayRefused([Cur EXCEPT !.playReqs = RemoveAt(playReqs, k)],
                                 playReqs[k], st))
    /\ UNCHANGED <<previewFrame, tokenSeq>>

\* the revoke race of a suspended togglePreviewPlayback call is over
AcquireResume(k) ==
  /\ conts[k].kind = "race"
  /\ LeavesAcquire(AcquireForPlay([Cur EXCEPT !.conts = RemoveAt(conts, k)],
                                  conts[k].mt, conts[k].elSess))
  /\ UNCHANGED <<previewFrame, tokenSeq>>

NextAcquire ==
  \/ \E k \in 1..Len(items) : AcquireOpen(items[k])
  \/ AcquireClose
  \/ AcquireRegister
  \/ AcquireToggle
  \/ \E k \in 1..Len(conts) : AcquireResume(k)
  \/ \E k \in 1..Len(revokeReqs) : RevokeAnswered(k)
  \/ \E k \in 1..Len(playReqs) : AcquireAnswered(k)
  \/ \E k \in 1..Len(playReqs) : AcquireFailed(k)

SpecAcquire == InitPreview /\ [][NextAcquire]_vars

\* the requests in flight that an explicit play of the current preview
\* session issued, and the explicit plays of the session that still wait for
\* the revoke race before they issue theirs
PlayAcquisitions ==
  {k \in 1..Len(playReqs) :
     previewOpen /\ playReqs[k].by = "play" /\ playReqs[k].sess = sess}

PlaysWaiting ==
  {k \in 1..Len(conts) :
     previewOpen /\ conts[k].kind = "race" /\ conts[k].elSess = sess}

\* C38: at most one token acquisition issued by an explicit play of the
\* current preview session is outstanding, and previewStreamLoading is TRUE
\* exactly while one is.
C38_OneAcquisitionPerSession ==
  /\ Cardinality(PlayAcquisitions) + Cardinality(PlaysWaiting) <= 1
  /\ previewStreamLoading <=> (PlayAcquisitions # {} \/ PlaysWaiting # {})

\* C39: once an adaptive-streaming video has ended naturally, a step that
\* starts the element playing on a newly acquired stream URL leaves the
\* element with that URL as its source: not without a source, and not with
\* the source of a token that has ended.
C39_ReplayAttachesNewSource ==
  [][(/\ endedToks # {}
      /\ previewOpen' /\ mediaEl' /\ MediaTypeOf(previewItem') = "video"
      /\ previewStreamUrl' # Null /\ previewStreamUrl'.hls
      /\ elPaused /\ ~elPaused') =>
        /\ elSrc' = previewStreamUrl'.tok
        /\ elSrc' \notin endedToks']_vars

(***************************************************************************)
(* Thumbnails together with like/unlike updates and list refreshes         *)
(***************************************************************************)
InitThumbLike ==
  /\ srvLiked = {}
  /\ srvOthers = [id \in Ids |-> 0]
  /\ srvItems = <<"v1", "i1">>
  /\ uploadTermsUrl = Null
  /\ srvStatus = [id \in Ids |-> Catalogue[id].status]
  /\ srvPlayback = DefaultPlayback
  /\ hlsMode = "native"
  /\ elDropsOnLoad = FALSE
  /\ playerErrorsLeft = MaxPlayerErrors
  /\ FieldDefaults
  /\ loading = TRUE
  /\ items = <<>>
  /\ total = 0
  /\ imgState = [id \in Ids |-> "absent"]
  /\ listReqs = <<FirstListReq(FALSE, 1, "all")>>
  /\ likeHist = HistLoaded(<<>>)

NextThumbLike ==
  \/ applyFilters
  \/ \E k \in 1..Len(listReqs) : ListServerPage(k)
  \/ \E k \in 1..Len(listReqs) : RefreshApply(k)
  \/ \E id \in Ids : onThumbError(id)
  \/ \E id \in Ids : onThumbLoad(id)
  \/ \E k \in 1..Len(thumbTimers) : ThumbRetryFires(k)
  \/ ToggleLike
  \/ \E k \in 1..Len(likeReqs) : LikeSucceed(k)
  \/ \E k \in 1..Len(likeReqs) : LikeFail(k)

SpecThumbLike == InitThumbLike /\ [][NextThumbLike]_vars

\* C40: every item of the list has _thumbFailed set exactly when its
\* public_id is in _thumbFailures, and applying a list response changes
\* neither _thumbFailures nor _thumbRetryById.
C40_FailedFlagMatchesSet ==
  /\ [](\A k \in 1..Len(items) :
          items[k]._thumbFailed <=> items[k].public_id \in thumbFailures)
  /\ [][\A k \in 1..Len(listReqs) :
          RefreshApply(k) => UNCHANGED <<thumbFailures, thumbRetryById>>]_vars

\* a thumbnail has failed for good, and its item is shown as failed and
\* liked by a list that was refreshed after the like
C40_Witness ==
  /\ "v1" \in thumbFailures
  /\ listReqs = <<>> /\ likeReqs = <<>>
  /\ \E k \in 1..Len(items) :
       /\ items[k].public_id = "v1"
       /\ items[k]._thumbFailed /\ items[k].liked
       /\ likeHist["v1"].liked0
       /\ imgState["v1"] = "absent"

====
